---- MODULE Spec2Model ----
(***************************************************************************)
(* BatchAnalyzer (src/backend/batch_analyzer.py): the per-file analysis    *)
(* engine with its content cache, retry loop, heuristic fallback, issue    *)
(* filter and consistency check, driving the CrewAI pipeline of            *)
(* src/backend/crew.py and the report files the pipeline leaves in the     *)
(* working directory.                                                      *)
(*                                                                         *)
(* Text is modelled as a sequence of one-character strings, so that the    *)
(* substring, prefix and case-folding tests of the code are computed and   *)
(* not assumed.  A Java source is a sequence of lines and a line is a      *)
(* sequence of lexical tokens (the words and punctuation a regular         *)
(* expression of the code tells apart).                                    *)
(***************************************************************************)
EXTENDS Integers, Sequences, FiniteSets, TLC

(***************************************************************************)
(* Bounds of the exploration.                                              *)
(***************************************************************************)
MaxCalls == 2
MaxRetriesArg == 3

(* The worker threads of the server and the requests it is sent.           *)
MaxThreads == 2

MaxRequests == 2

Threads == 1..MaxThreads

(* The analyses that run at the same time.                                 *)
MaxAnalyses == 2

Analyses == 1..MaxAnalyses

(***************************************************************************)
(* Text helpers: Python's str.lower, `in`, startswith, endswith, +.        *)
(***************************************************************************)
UpperLetters ==
    <<"A","B","C","D","E","F","G","H","I","J","K","L","M",
      "N","O","P","Q","R","S","T","U","V","W","X","Y","Z">>

LowerLetters ==
    <<"a","b","c","d","e","f","g","h","i","j","k","l","m",
      "n","o","p","q","r","s","t","u","v","w","x","y","z">>

LowerChar(c) ==
    IF \E i \in 1..26 : UpperLetters[i] = c
    THEN LowerLetters[CHOOSE i \in 1..26 : UpperLetters[i] = c]
    ELSE c

Lower(s) == [i \in 1..Len(s) |-> LowerChar(s[i])]

IsUpperChar(c) == \E i \in 1..26 : UpperLetters[i] = c

IsLowerChar(c) == \E i \in 1..26 : LowerLetters[i] = c

StartsWith(s, p) ==
    /\ Len(p) <= Len(s)
    /\ \A i \in 1..Len(p) : s[i] = p[i]

EndsWith(s, p) ==
    /\ Len(p) <= Len(s)
    /\ \A i \in 1..Len(p) : s[Len(s) - Len(p) + i] = p[i]

MatchAt(s, p, k) ==
    /\ k + Len(p) - 1 <= Len(s)
    /\ \A i \in 1..Len(p) : s[k + i - 1] = p[i]

Contains(s, p) == \E k \in 1..(Len(s) + 1) : MatchAt(s, p, k)

AnyKeywordIn(keywords, s) ==
    \E i \in 1..Len(keywords) : Contains(s, keywords[i])

(* retry_backoff * (attempt - 1) in place of retry_backoff ** (attempt - 1). *)
Times(b, e) == b * e

RECURSIVE Power(_, _)
Power(b, e) == IF e = 0 THEN 1 ELSE b * Power(b, e - 1)

(***************************************************************************)
(* Error classification, _is_llm_error and _is_rate_limit_error.           *)
(***************************************************************************)
llm_error_keywords ==
    << <<"l", "l", "m">>,
       <<"e", "m", "p", "t", "y">>,
       <<"t", "i", "m", "e", "o", "u", "t">>,
       <<"c", "o", "n", "n", "e", "c", "t", "i", "o", "n">>,
       <<"b", "e", "d", "r", "o", "c", "k">>,
       <<"a", "w", "s">>,
       <<"c", "r", "e", "d", "e", "n", "t", "i", "a", "l", "s">>,
       <<"h", "t", "t", "p">>,
       <<"c", "o", "n", "n", "e", "c", "t", "i", "o", "n", " ", "r", "e", "f", "u", "s", "e", "d">>,
       <<"n", "o", " ", "r", "e", "s", "p", "o", "n", "s", "e">>,
       <<"r", "a", "t", "e", " ", "l", "i", "m", "i", "t">> >>

rate_limit_keywords ==
    << <<"4", "2", "9">>,
       <<"r", "a", "t", "e", " ", "l", "i", "m", "i", "t">>,
       <<"r", "a", "t", "e", "l", "i", "m", "i", "t">>,
       <<"q", "u", "o", "t", "a">>,
       <<"r", "e", "s", "o", "u", "r", "c", "e", "_", "e", "x", "h", "a", "u", "s", "t", "e", "d">>,
       <<"r", "e", "s", "o", "u", "r", "c", "e", " ", "e", "x", "h", "a", "u", "s", "t", "e", "d">>,
       <<"t", "o", "o", " ", "m", "a", "n", "y", " ", "r", "e", "q", "u", "e", "s", "t", "s">>,
       <<"r", "e", "q", "u", "e", "s", "t", "s", " ", "p", "e", "r", " ", "m", "i", "n", "u", "t", "e">>,
       <<"t", "o", "k", "e", "n", "s", " ", "p", "e", "r", " ", "m", "i", "n", "u", "t", "e">>,
       <<"m", "o", "d", "e", "l", " ", "i", "s", " ", "o", "v", "e", "r", "l", "o", "a", "d", "e", "d">>,
       <<"c", "a", "p", "a", "c", "i", "t", "y">>,
       <<"o", "v", "e", "r", "l", "o", "a", "d", "e", "d">>,
       <<"r", "e", "t", "r", "y", " ", "a", "f", "t", "e", "r">> >>

(* A keyword list that also holds "error".                                  *)
_is_llm_error_loose(error_msg) ==
    \/ AnyKeywordIn(llm_error_keywords, Lower(error_msg))
    \/ Contains(Lower(error_msg), <<"e", "r", "r", "o", "r">>)

_is_llm_error(error_msg) == AnyKeywordIn(llm_error_keywords, Lower(error_msg))

_is_rate_limit_error(error_msg) == AnyKeywordIn(rate_limit_keywords, Lower(error_msg))

(***************************************************************************)
(* Error messages an attempt can fail with: what str(e) is for a provider  *)
(* quota error, a transport error, an error naming both and a pipeline     *)
(* configuration error, and the two Python errors the analyzer's own code  *)
(* raises on malformed data (AttributeError, IndexError).                  *)
(***************************************************************************)
Msg ==
    [
      Quota |->
          <<"E", "r", "r", "o", "r", " ", "c", "o", "d", "e", ":", " ", "4", "2", "9", " ", "T", "o", "o", " ", "M", "a", "n", "y", " ", "R", "e", "q", "u", "e", "s", "t", "s">>,
      Timeout |->
          <<"R", "e", "q", "u", "e", "s", "t", " ", "t", "i", "m", "e", "o", "u", "t">>,
      RateLimit |->
          <<"R", "a", "t", "e", " ", "l", "i", "m", "i", "t", " ", "e", "x", "c", "e", "e", "d", "e", "d">>,
      Attribute |->
          <<"'", "s", "t", "r", "'", " ", "o", "b", "j", "e", "c", "t", " ", "h", "a", "s", " ", "n", "o", " ", "a", "t", "t", "r", "i", "b", "u", "t", "e", " ", "'", "g", "e", "t", "'">>,
      Index |->
          <<"l", "i", "s", "t", " ", "i", "n", "d", "e", "x", " ", "o", "u", "t", " ", "o", "f", " ", "r", "a", "n", "g", "e">>,
      Validation |->
          <<"1", " ", "v", "a", "l", "i", "d", "a", "t", "i", "o", "n", " ", "e", "r", "r", "o", "r", " ", "f", "o", "r", " ", "C", "r", "e", "w">>,
      Permission |->
          <<"[", "E", "r", "r", "n", "o", " ", "1", "3", "]", " ", "P", "e", "r", "m", "i", "s", "s", "i", "o", "n", " ", "d", "e", "n", "i", "e", "d", ":", " ", "'", "r", "a", "n", "k", "i", "n", "g", "_", "r", "e", "p", "o", "r", "t", ".", "m", "d", "'">> ]


(***************************************************************************)
(* Lexical classes of the regular expressions: \w, \w+, a type token       *)
(* \w+(?:<[^>]*>)?, and the keyword sets the patterns name.                *)
(***************************************************************************)
Digits == {"0","1","2","3","4","5","6","7","8","9"}

IsWordChar(c) == IsUpperChar(c) \/ IsLowerChar(c) \/ c \in Digits \/ c = "_"

IsWord(t) == Len(t) > 0 /\ \A i \in 1..Len(t) : IsWordChar(t[i])

IsTypeToken(t) ==
    \/ IsWord(t)
    \/ /\ Len(t) > 2
       /\ t[Len(t)] = ">"
       /\ \E k \in 2..(Len(t) - 1) :
            /\ t[k] = "<"
            /\ IsWord(SubSeq(t, 1, k - 1))
            /\ \A j \in (k + 1)..(Len(t) - 1) : t[j] # ">"

(* The words and marks the patterns of the analyzer look for.              *)
T ==
    [
      public |-> <<"p", "u", "b", "l", "i", "c">>,
      private |-> <<"p", "r", "i", "v", "a", "t", "e">>,
      protected |-> <<"p", "r", "o", "t", "e", "c", "t", "e", "d">>,
      static |-> <<"s", "t", "a", "t", "i", "c">>,
      final |-> <<"f", "i", "n", "a", "l">>,
      void |-> <<"v", "o", "i", "d">>,
      class |-> <<"c", "l", "a", "s", "s">>,
      interface |-> <<"i", "n", "t", "e", "r", "f", "a", "c", "e">>,
      enum |-> <<"e", "n", "u", "m">>,
      this |-> <<"t", "h", "i", "s">>,
      get |-> <<"g", "e", "t">>,
      set |-> <<"s", "e", "t">>,
      is |-> <<"i", "s">>,
      NA |-> <<"N", "/", "A">>,
      main |-> <<"m", "a", "i", "n">>,
      dotjava |-> <<".", "j", "a", "v", "a">>,
      int |-> <<"i", "n", "t">>,
      long |-> <<"l", "o", "n", "g">>,
      double |-> <<"d", "o", "u", "b", "l", "e">>,
      float |-> <<"f", "l", "o", "a", "t">>,
      boolean |-> <<"b", "o", "o", "l", "e", "a", "n">>,
      String |-> <<"S", "t", "r", "i", "n", "g">>,
      lparen |-> <<"(">>,
      lbrace |-> <<"{">>,
      rbrace |-> <<"}">>,
      semi |-> <<";">>,
      dot |-> <<".">>,
      assign |-> <<"=">> ]

Modifiers == {T.public, T.private, T.protected}

TypeKeywords == {T.class, T.interface, T.enum}

PrimitiveTypes == {T.int, T.long, T.double, T.float, T.boolean, T.String}

Tok(line, i) == IF i \in 1..Len(line) THEN line[i] ELSE <<>>

HasTok(line, t) == \E i \in 1..Len(line) : line[i] = t

(* The tokens of the whole file in order: \s in a pattern also matches the *)
(* line break, so findall over the content runs over this stream.          *)
RECURSIVE Flatten(_)
Flatten(lines) ==
    IF lines = <<>> THEN <<>> ELSE Head(lines) \o Flatten(Tail(lines))

RECURSIVE MaxLineLen(_)
MaxLineLen(lines) ==
    IF lines = <<>> THEN 0
    ELSE LET m == MaxLineLen(Tail(lines))
         IN  IF Len(Head(lines)) > m THEN Len(Head(lines)) ELSE m

(***************************************************************************)
(* _is_getter_setter                                                       *)
(***************************************************************************)
business_logic_keywords ==
    << <<"g", "r", "e", "e", "t", "i", "n", "g">>,
       <<"s", "t", "a", "t", "u", "s">>,
       <<"r", "e", "p", "o", "r", "t">>,
       <<"c", "a", "l", "c", "u", "l", "a", "t", "e">>,
       <<"c", "o", "m", "p", "u", "t", "e">>,
       <<"g", "e", "n", "e", "r", "a", "t", "e">>,
       <<"p", "r", "o", "c", "e", "s", "s">>,
       <<"v", "a", "l", "i", "d", "a", "t", "e">>,
       <<"c", "h", "e", "c", "k">>,
       <<"u", "p", "d", "a", "t", "e">>,
       <<"c", "r", "e", "a", "t", "e">>,
       <<"b", "u", "i", "l", "d">>,
       <<"c", "o", "n", "f", "i", "r", "m">>,
       <<"s", "e", "n", "d">>,
       <<"e", "m", "a", "i", "l">>,
       <<"t", "i", "e", "r">>,
       <<"p", "o", "i", "n", "t", "s">>,
       <<"p", "r", "i", "c", "e">>,
       <<"t", "o", "t", "a", "l">> >>

(* The prefix decides alone: no business-logic keyword is looked for.      *)
PrefixOnly(method_name) ==
    IF method_name = <<>> \/ method_name = T.NA THEN FALSE
    ELSE \/ StartsWith(Lower(method_name), T.get) /\ Len(method_name) > 3
         \/ StartsWith(Lower(method_name), T.set) /\ Len(method_name) > 3
         \/ StartsWith(Lower(method_name), T.is) /\ Len(method_name) > 2

_is_getter_setter(method_name) ==
    IF method_name = <<>> \/ method_name = T.NA THEN FALSE
    ELSE IF AnyKeywordIn(business_logic_keywords, Lower(method_name)) THEN FALSE
    ELSE IF StartsWith(Lower(method_name), T.get) /\ Len(method_name) > 3 THEN TRUE
    ELSE IF StartsWith(Lower(method_name), T.set) /\ Len(method_name) > 3 THEN TRUE
    ELSE IF StartsWith(Lower(method_name), T.is) /\ Len(method_name) > 2 THEN TRUE
    ELSE FALSE

(***************************************************************************)
(* _is_model_class: a path keyword, or at least 80% of the lines that      *)
(* declare a method (modifier, one-word return type, name, "(") name a     *)
(* getter or setter.  gs / total >= 0.8 is compared as 5 * gs >= 4 * total.*)
(***************************************************************************)
model_path_keywords ==
    << <<"m", "o", "d", "e", "l">>,
       <<"e", "n", "t", "i", "t", "y">>,
       <<"d", "t", "o">>,
       <<"d", "o", "m", "a", "i", "n">>,
       <<"p", "o", "j", "o">> >>

MethodDeclAt(line, i) ==
    /\ Tok(line, i) \in Modifiers
    /\ IsWord(Tok(line, i + 1))
    /\ IsWord(Tok(line, i + 2))
    /\ Tok(line, i + 3) = T.lparen

HasMethodDecl(line) == \E i \in 1..Len(line) : MethodDeclAt(line, i)

FirstMethodDeclName(line) ==
    LET i == CHOOSE k \in 1..Len(line) :
                 /\ MethodDeclAt(line, k)
                 /\ \A j \in 1..(k - 1) : ~MethodDeclAt(line, j)
    IN  line[i + 2]

DeclLines(code) == {n \in 1..Len(code) : HasMethodDecl(code[n])}

GetterSetterLines(code) ==
    {n \in DeclLines(code) : _is_getter_setter(FirstMethodDeclName(code[n]))}

(* The share of accessors decides alone, from 95% on.                      *)
RatioAlone(code, file_path) ==
    LET total_methods == Cardinality(DeclLines(code))
        getter_setter_methods == Cardinality(GetterSetterLines(code))
    IN  /\ total_methods > 0
        /\ 20 * getter_setter_methods >= 19 * total_methods

_is_model_class(code, file_path) ==
    IF AnyKeywordIn(model_path_keywords, Lower(file_path)) THEN TRUE
    ELSE LET total_methods == Cardinality(DeclLines(code))
             getter_setter_methods == Cardinality(GetterSetterLines(code))
         IN  /\ total_methods > 0
             /\ 5 * getter_setter_methods >= 4 * total_methods

(***************************************************************************)
(* Issues.  An element of a parsed JSON array is a dict with the wire      *)
(* fields (isdict), or some other JSON value.  An absent text field is the *)
(* empty text, which is what issue.get(field, '') makes of it; an absent   *)
(* rank or line is Absent.                                                 *)
(***************************************************************************)
Absent == -1

Issue(cls, fn, sig, rtype, rationale, rank, severity, line) ==
    [isdict |-> TRUE, cls |-> cls, fn |-> fn, sig |-> sig, rtype |-> rtype,
     rationale |-> rationale, rank |-> rank, severity |-> severity,
     line |-> line, github_url |-> <<>>]

NotADict ==
    [isdict |-> FALSE, cls |-> <<>>, fn |-> <<>>, sig |-> <<>>, rtype |-> <<>>,
     rationale |-> <<>>, rank |-> Absent, severity |-> <<>>,
     line |-> Absent, github_url |-> <<>>]

(* The outcome of a call that may raise: the value, or str(e).             *)
Returned(v) == [raised |-> FALSE, msg |-> <<>>, val |-> v]

Raised(m) == [raised |-> TRUE, msg |-> m, val |-> <<>>]

DigitChars == <<"0","1","2","3","4","5","6","7","8","9">>

(* str(n) of a natural number, as an f-string formats it.                  *)
RECURSIVE Str(_)
Str(n) ==
    IF n < 10 THEN <<DigitChars[n + 1]>>
    ELSE Str(n \div 10) \o <<DigitChars[(n % 10) + 1]>>

(***************************************************************************)
(* _filter_and_validate_issues                                             *)
(***************************************************************************)
(* The string literals of the analyzer.                                    *)
Lit ==
    [
      information_hiding |-> <<"i", "n", "f", "o", "r", "m", "a", "t", "i", "o", "n", " ", "h", "i", "d", "i", "n", "g">>,
      god_class |-> <<"g", "o", "d", " ", "c", "l", "a", "s", "s">>,
      feature_envy |-> <<"f", "e", "a", "t", "u", "r", "e", " ", "e", "n", "v", "y">>,
      exposes_public_fields |-> <<"e", "x", "p", "o", "s", "e", "s", " ", "p", "u", "b", "l", "i", "c", " ", "f", "i", "e", "l", "d", "s">>,
      extract_method |-> <<"e", "x", "t", "r", "a", "c", "t", " ", "m", "e", "t", "h", "o", "d">>,
      extract_class |-> <<"e", "x", "t", "r", "a", "c", "t", " ", "c", "l", "a", "s", "s">>,
      inline_variable |-> <<"i", "n", "l", "i", "n", "e", " ", "v", "a", "r", "i", "a", "b", "l", "e">>,
      move_method |-> <<"m", "o", "v", "e", " ", "m", "e", "t", "h", "o", "d">>,
      low |-> <<"l", "o", "w">>,
      medium |-> <<"m", "e", "d", "i", "u", "m">>,
      high |-> <<"h", "i", "g", "h">>,
      class_level |-> <<"c", "l", "a", "s", "s", "-", "l", "e", "v", "e", "l">>,
      too_long |-> <<"M", "e", "t", "h", "o", "d", " ", "i", "s", " ", "t", "o", "o", " ", "l", "o", "n", "g", " ", "(">>,
      lines_extract |-> <<" ", "l", "i", "n", "e", "s", ")", ".", " ", "C", "o", "n", "s", "i", "d", "e", "r", " ", "e", "x", "t", "r", "a", "c", "t", "i", "n", "g", " ", "s", "m", "a", "l", "l", "e", "r", " ", "m", "e", "t", "h", "o", "d", "s", ".">>,
      too_many |-> <<"C", "l", "a", "s", "s", " ", "h", "a", "s", " ", "t", "o", "o", " ", "m", "a", "n", "y", " ", "m", "e", "t", "h", "o", "d", "s", " ", "(">>,
      consider_splitting |-> <<")", ".", " ", "C", "o", "n", "s", "i", "d", "e", "r", " ", "s", "p", "l", "i", "t", "t", "i", "n", "g", " ", "i", "n", "t", "o", " ", "m", "u", "l", "t", "i", "p", "l", "e", " ", "c", "l", "a", "s", "s", "e", "s", ".">>,
      unknown |-> <<"u", "n", "k", "n", "o", "w", "n">>,
      dev |-> <<"d", "e", "v">>,
      ellipsis_args |-> <<"(", ".", ".", ".", ")">>,
      main_sig |-> <<"m", "a", "i", "n", "(", "S", "t", "r", "i", "n", "g", "[", "]", " ", "a", "r", "g", "s", ")">>,
      method_has |-> <<"M", "e", "t", "h", "o", "d", " ", "h", "a", "s", " ">>,
      lines_consider |-> <<" ", "l", "i", "n", "e", "s", ".", " ", "C", "o", "n", "s", "i", "d", "e", "r", " ", "e", "x", "t", "r", "a", "c", "t", "i", "n", "g", " ", "s", "m", "a", "l", "l", "e", "r", " ", "m", "e", "t", "h", "o", "d", "s", ".">>,
      class_has |-> <<"C", "l", "a", "s", "s", " ", "h", "a", "s", " ">>,
      methods_consider |-> <<" ", "m", "e", "t", "h", "o", "d", "s", ".", " ", "C", "o", "n", "s", "i", "d", "e", "r", " ", "s", "p", "l", "i", "t", "t", "i", "n", "g", " ", "r", "e", "s", "p", "o", "n", "s", "i", "b", "i", "l", "i", "t", "i", "e", "s", ".">>,
      variable_q |-> <<"V", "a", "r", "i", "a", "b", "l", "e", " ", "'">>,
      assigned_once |-> <<"'", " ", "i", "s", " ", "a", "s", "s", "i", "g", "n", "e", "d", " ", "o", "n", "c", "e", " ", "a", "n", "d", " ", "u", "s", "e", "d", " ", "e", "x", "a", "c", "t", "l", "y", " ", "o", "n", "c", "e", " ", "i", "m", "m", "e", "d", "i", "a", "t", "e", "l", "y", " ", "a", "f", "t", "e", "r", " ", "emdash", " ", "i", "t", " ", "c", "a", "n", " ", "b", "e", " ", "i", "n", "l", "i", "n", "e", "d", " ", "t", "o", " ", "r", "e", "m", "o", "v", "e", " ", "u", "n", "n", "e", "c", "e", "s", "s", "a", "r", "y", " ", "i", "n", "d", "i", "r", "e", "c", "t", "i", "o", "n", ".">>,
      direct_assignment |-> <<"D", "i", "r", "e", "c", "t", " ", "a", "s", "s", "i", "g", "n", "m", "e", "n", "t", " ", "t", "o", " ", "p", "u", "b", "l", "i", "c", " ", "f", "i", "e", "l", "d", " ", "'">>,
      bypasses |-> <<"'", " ", "b", "y", "p", "a", "s", "s", "e", "s", " ", "e", "n", "c", "a", "p", "s", "u", "l", "a", "t", "i", "o", "n", ".", " ", "T", "h", "e", " ", "t", "a", "r", "g", "e", "t", " ", "c", "l", "a", "s", "s", " ", "s", "h", "o", "u", "l", "d", " ", "e", "x", "p", "o", "s", "e", " ", "a", " ", "c", "o", "n", "s", "t", "r", "u", "c", "t", "o", "r", " ", "o", "r", " ", "s", "e", "t", "t", "e", "r", " ", "i", "n", "s", "t", "e", "a", "d", " ", "o", "f", " ", "p", "u", "b", "l", "i", "c", " ", "f", "i", "e", "l", "d", "s", ".">>,
      info_hiding_violation |-> <<"I", "n", "f", "o", "r", "m", "a", "t", "i", "o", "n", " ", "h", "i", "d", "i", "n", "g", " ", "v", "i", "o", "l", "a", "t", "i", "o", "n", ":", " ">>,
      public_instance |-> <<" ", "p", "u", "b", "l", "i", "c", " ", "i", "n", "s", "t", "a", "n", "c", "e", " ", "f", "i", "e", "l", "d", "(", "s", ")", " ", "f", "o", "u", "n", "d", " ", "(">>,
      fields_should |-> <<")", ".", " ", "F", "i", "e", "l", "d", "s", " ", "s", "h", "o", "u", "l", "d", " ", "b", "e", " ", "p", "r", "i", "v", "a", "t", "e", " ", "w", "i", "t", "h", " ", "g", "e", "t", "t", "e", "r", "/", "s", "e", "t", "t", "e", "r", " ", "a", "c", "c", "e", "s", "s", " ", "t", "o", " ", "p", "r", "e", "s", "e", "r", "v", "e", " ", "e", "n", "c", "a", "p", "s", "u", "l", "a", "t", "i", "o", "n", ".">>,
      and |-> <<" ", "a", "n", "d", " ">>,
      more |-> <<" ", "m", "o", "r", "e">>,
      comma_sp |-> <<",", " ">>,
      quote |-> <<"'">>,
      line_comment |-> <<"/", "/">>,
      star |-> <<"*">>,
      github_prefix |-> <<"h", "t", "t", "p", "s", ":", "/", "/", "g", "i", "t", "h", "u", "b", ".", "c", "o", "m", "/">>,
      blob |-> <<"/", "b", "l", "o", "b", "/">>,
      slash |-> <<"/">>,
      hash_L |-> <<"#", "L">>,
      line_open |-> <<"/", "*">> ]

own_field_phrases ==
    << <<"o", "w", "n", " ", "f", "i", "e", "l", "d">>,
       <<"i", "t", "s", " ", "o", "w", "n", " ", "f", "i", "e", "l", "d">>,
       <<"s", "a", "m", "e", " ", "c", "l", "a", "s", "s">>,
       <<"a", "c", "c", "e", "s", "s", "e", "s", " ", "i", "t", "s", " ", "o", "w", "n">>,
       <<"t", "h", "i", "s", " ", "c", "l", "a", "s", "s", "'", "s", " ", "o", "w", "n">>,
       <<"f", "r", "o", "m", " ", "i", "t", "s", " ", "o", "w", "n">>,
       <<"u", "s", "e", "s", " ", "i", "t", "s", " ", "o", "w", "n">> >>

(* The longest prefix of a token that \w+ matches.                         *)
RECURSIVE WordPrefix(_)
WordPrefix(t) ==
    IF t = <<>> \/ ~IsWordChar(Head(t)) THEN <<>>
    ELSE <<Head(t)>> \o WordPrefix(Tail(t))

ClassDeclAt(line, i) ==
    /\ Tok(line, i) \in TypeKeywords
    /\ WordPrefix(Tok(line, i + 1)) # <<>>

(* Every word of the source counts as a class found in the code.           *)
MentionedNames(code) ==
    {code[p[1]][p[2]] :
        p \in {q \in (1..Len(code)) \X (1..MaxLineLen(code)) :
                  q[2] <= Len(code[q[1]]) /\ IsWord(code[q[1]][q[2]])}}

(* re.search per line: the name after the leftmost class|interface|enum.   *)
actual_classes(code) ==
    {WordPrefix(code[n][i + 1]) :
        <<n, i>> \in {p \in (1..Len(code)) \X (1..MaxLineLen(code)) :
                        /\ ClassDeclAt(code[p[1]], p[2])
                        /\ \A j \in 1..(p[2] - 1) : ~ClassDeclAt(code[p[1]], j)}}

skip_reason(issue, classes, is_model_class) ==
    LET func_name == issue.fn
        class_name == issue.cls
        refactoring_type == issue.rtype
        rationale == Lower(issue.rationale)
        r1 == IF /\ _is_getter_setter(func_name)
                 /\ \/ Contains(Lower(refactoring_type), Lit.information_hiding)
                    \/ Contains(rationale, Lit.information_hiding)
              THEN "getter_setter_info_hiding" ELSE "none"
        r2 == IF class_name # <<>> /\ class_name \notin classes
              THEN "hallucination" ELSE r1
        r3 == IF is_model_class /\ Contains(rationale, Lit.god_class)
              THEN "god_class_on_model" ELSE r2
        r4 == IF /\ \/ Contains(Lower(refactoring_type), Lit.feature_envy)
                    \/ Contains(rationale, Lit.feature_envy)
                 /\ AnyKeywordIn(own_field_phrases, rationale)
              THEN "feature_envy_own_fields" ELSE r3
        r5 == IF /\ Contains(rationale, Lit.exposes_public_fields)
                 /\ _is_getter_setter(func_name)
              THEN "public_field_on_getter_setter" ELSE r4
    IN  r5

_filter_and_validate_issues(issues, code, file_path) ==
    LET classes == actual_classes(code)
        is_model_class == _is_model_class(code, file_path)
        kept(issue) == skip_reason(issue, classes, is_model_class) = "none"
    IN  IF \E k \in 1..Len(issues) : ~issues[k].isdict
        THEN Raised(Msg.Attribute)
        ELSE Returned(SelectSeq(issues, kept))

(***************************************************************************)
(* _create_basic_issues: the heuristic generator.                          *)
(***************************************************************************)
RECURSIVE LastComponent(_)
LastComponent(path) ==
    IF \E i \in 1..Len(path) : path[i] = "/"
    THEN LastComponent(Tail(path))
    ELSE path

RECURSIVE RemoveAll(_, _)
RemoveAll(s, p) ==
    IF s = <<>> THEN <<>>
    ELSE IF MatchAt(s, p, 1) THEN RemoveAll(SubSeq(s, Len(p) + 1, Len(s)), p)
    ELSE <<Head(s)>> \o RemoveAll(Tail(s), p)

(* file_path.split('/')[-1].replace('.java', '')                           *)
ClassNameOf(file_path) == RemoveAll(LastComponent(file_path), T.dotjava)

(* 'public ' in line: the word public with a blank after it.               *)
HasPublicBlank(line) == \E i \in 1..(Len(line) - 1) : EndsWith(line[i], T.public)

OpensMethod(line) ==
    /\ HasPublicBlank(line)
    /\ HasTok(line, T.lparen)
    /\ HasTok(line, T.lbrace)

FirstParen(line) ==
    CHOOSE i \in 1..Len(line) :
        line[i] = T.lparen /\ \A j \in 1..(i - 1) : line[j] # T.lparen

LongMethodIssue(class_name, method_name, method_line_count, method_start_line) ==
    Issue(class_name, method_name, method_name \o Lit.ellipsis_args,
          Lit.extract_method,
          Lit.method_has \o Str(method_line_count) \o Lit.lines_consider,
          Absent, Lit.medium, method_start_line)

(* The method is long from 21 counted lines on.                            *)
IsLongAboveTwenty(method_line_count) == method_line_count > 20

(* Line 599.                                                               *)
IsLongMethod(method_line_count) == method_line_count > 25

(* The first loop, lines 590-610; line.split('(')[0].split()[-1] raises    *)
(* IndexError when nothing but blanks precedes the first parenthesis.      *)
RECURSIVE LongMethodScan(_, _, _, _, _, _, _, _)
LongMethodScan(lines, i, class_name, in_method, method_line_count, method_name, method_start_line, issues) ==
    IF i > Len(lines) THEN Returned(issues)
    ELSE IF OpensMethod(lines[i])
    THEN IF FirstParen(lines[i]) = 1 THEN Raised(Msg.Index)
         ELSE LongMethodScan(lines, i + 1, class_name, TRUE, 0,
                             lines[i][FirstParen(lines[i]) - 1], i, issues)
    ELSE IF in_method
    THEN IF HasTok(lines[i], T.rbrace)
         THEN LongMethodScan(lines, i + 1, class_name, FALSE,
                  method_line_count + 1, method_name, method_start_line,
                  IF IsLongMethod(method_line_count + 1)
                  THEN Append(issues, LongMethodIssue(class_name, method_name,
                           method_line_count + 1, method_start_line))
                  ELSE issues)
         ELSE LongMethodScan(lines, i + 1, class_name, TRUE,
                  method_line_count + 1, method_name, method_start_line, issues)
    ELSE LongMethodScan(lines, i + 1, class_name, FALSE, method_line_count,
                        method_name, method_start_line, issues)

(* method_decl_re over the token stream, with and without static; no two   *)
(* matches overlap, so findall returns one name per matching position.     *)
DeclWithStaticAt(ts, i) ==
    /\ Tok(ts, i) \in Modifiers
    /\ Tok(ts, i + 1) = T.static
    /\ IsTypeToken(Tok(ts, i + 2))
    /\ IsWord(Tok(ts, i + 3))
    /\ Tok(ts, i + 4) = T.lparen

DeclPlainAt(ts, i) ==
    /\ Tok(ts, i) \in Modifiers
    /\ IsTypeToken(Tok(ts, i + 1))
    /\ IsWord(Tok(ts, i + 2))
    /\ Tok(ts, i + 3) = T.lparen

MethodNameAt(ts, i) == IF DeclWithStaticAt(ts, i) THEN ts[i + 3] ELSE ts[i + 2]

all_method_names(code) ==
    LET ts == Flatten(code)
    IN  {i \in 1..Len(ts) : DeclWithStaticAt(ts, i) \/ DeclPlainAt(ts, i)}

IsAccessorName(m) ==
    \/ StartsWith(m, T.get) /\ Len(m) > 3
    \/ StartsWith(m, T.set) /\ Len(m) > 3
    \/ StartsWith(Lower(m), T.is) /\ Len(m) > 2

business_methods(code) ==
    LET ts == Flatten(code)
    IN  {i \in all_method_names(code) : ~IsAccessorName(MethodNameAt(ts, i))}

(* The god-class issue from four business methods on.                      *)
GodClassAboveThree(code, class_name) ==
    LET method_count == Cardinality(business_methods(code))
    IN  IF method_count > 3
        THEN << Issue(class_name, T.NA, Lit.class_level, Lit.extract_class,
                      Lit.class_has \o Str(method_count) \o Lit.methods_consider,
                      Absent, Lit.high, 1) >>
        ELSE <<>>

GodClassIssues(code, class_name) ==
    LET method_count == Cardinality(business_methods(code))
    IN  IF method_count > 5
        THEN << Issue(class_name, T.NA, Lit.class_level, Lit.extract_class,
                      Lit.class_has \o Str(method_count) \o Lit.methods_consider,
                      Absent, Lit.high, 1) >>
        ELSE <<>>

(* inline_pattern at the start of a line: type, name, "=", something, ";". *)
InlineDecl(line) ==
    /\ Tok(line, 1) \in PrimitiveTypes
    /\ IsWord(Tok(line, 2))
    /\ Tok(line, 3) = T.assign
    /\ \E j \in 5..Len(line) : line[j] = T.semi

CountTok(ts, t) == Cardinality({i \in 1..Len(ts) : ts[i] = t})

LinesFromTo(lines, a, b) ==
    SubSeq(lines, a, IF b > Len(lines) THEN Len(lines) ELSE b)

IsInlineCandidate(lines, n) ==
    /\ InlineDecl(lines[n])
    /\ CountTok(Flatten(LinesFromTo(lines, n + 1, n + 3)), lines[n][2]) = 1
    /\ CountTok(Flatten(LinesFromTo(lines, n + 1, Len(lines))), lines[n][2]) = 1

RECURSIVE InlineScan(_, _, _)
InlineScan(lines, n, class_name) ==
    IF n > Len(lines) THEN <<>>
    ELSE (IF IsInlineCandidate(lines, n)
          THEN << Issue(class_name, T.main, Lit.main_sig, Lit.inline_variable,
                        Lit.variable_q \o lines[n][2] \o Lit.assigned_once,
                        Absent, Lit.low, n) >>
          ELSE <<>>)
         \o InlineScan(lines, n + 1, class_name)

(* pub_field_pattern: receiver "." field "=" with a lower-case field.      *)
FieldAssignAt(line, i) ==
    /\ IsWord(Tok(line, i))
    /\ Tok(line, i + 1) = T.dot
    /\ IsWord(Tok(line, i + 2))
    /\ IsLowerChar(Tok(line, i + 2)[1])
    /\ Len(Tok(line, i + 3)) > 0
    /\ Tok(line, i + 3)[1] = "="

Before(p, q) == p[1] < q[1] \/ (p[1] = q[1] /\ p[2] < q[2])

(* The matches that add an issue: the receiver is not this, not a class    *)
(* name, and not in seen_objects, the receivers of the issues added so far.*)
ReportedAssigns(lines) ==
    LET matches == {p \in (1..Len(lines)) \X (1..MaxLineLen(lines)) :
                       FieldAssignAt(lines[p[1]], p[2])}
        obj(p) == lines[p[1]][p[2]]
    IN  {p \in matches :
            /\ obj(p) # T.this
            /\ ~IsUpperChar(obj(p)[1])
            /\ \A q \in matches : Before(q, p) => obj(q) # obj(p)}

RECURSIVE FieldAssignScan(_, _, _)
FieldAssignScan(lines, pending, class_name) ==
    IF pending = {} THEN <<>>
    ELSE LET p == CHOOSE x \in pending : \A y \in pending \ {x} : Before(x, y)
         IN  << Issue(class_name, T.main, Lit.main_sig, Lit.extract_class,
                      Lit.direct_assignment \o lines[p[1]][p[2]] \o T.dot
                          \o lines[p[1]][p[2] + 2] \o Lit.bypasses,
                      Absent, Lit.medium, p[1]) >>
             \o FieldAssignScan(lines, pending \ {p}, class_name)

(* pub_field_decl_re with k modifiers static|final consumed.               *)
FieldDeclWith(line, k) ==
    /\ Tok(line, 1) = T.public
    /\ Tok(line, 2) \notin TypeKeywords
    /\ ~(Tok(line, 2) = T.static /\ Tok(line, 3) \in TypeKeywords)
    /\ \A j \in 2..(1 + k) : Tok(line, j) \in {T.static, T.final}
    /\ Tok(line, 2 + k) # T.void
    /\ IsTypeToken(Tok(line, 2 + k))
    /\ IsWord(Tok(line, 3 + k))
    /\ Tok(line, 4 + k) = T.semi

IsCommentLine(line) ==
    /\ Len(line) > 0
    /\ StartsWith(line[1], Lit.line_comment) \/ StartsWith(line[1], Lit.star)

IsFieldDecl(line) ==
    /\ ~IsCommentLine(line)
    /\ \E k \in 0..Len(line) : FieldDeclWith(line, k)

FieldDeclName(line) ==
    LET k == CHOOSE m \in 0..Len(line) :
                 /\ FieldDeclWith(line, m)
                 /\ \A j \in (m + 1)..Len(line) : ~FieldDeclWith(line, j)
    IN  line[3 + k]

(* pub_fields_found, as the line numbers of the declarations in order.     *)
RECURSIVE FieldDeclLines(_, _)
FieldDeclLines(lines, n) ==
    IF n > Len(lines) THEN <<>>
    ELSE (IF IsFieldDecl(lines[n]) THEN <<n>> ELSE <<>>)
         \o FieldDeclLines(lines, n + 1)

RECURSIVE JoinQuoted(_, _, _)
JoinQuoted(lines, found, k) ==
    IF k > Len(found) \/ k > 5 THEN <<>>
    ELSE (IF k > 1 THEN Lit.comma_sp ELSE <<>>)
         \o Lit.quote \o FieldDeclName(lines[found[k]]) \o Lit.quote
         \o JoinQuoted(lines, found, k + 1)

FieldDeclIssues(lines, class_name) ==
    LET pub_fields_found == FieldDeclLines(lines, 1)
        field_list == JoinQuoted(lines, pub_fields_found, 1)
        suffix == IF Len(pub_fields_found) > 5
                  THEN Lit.and \o Str(Len(pub_fields_found) - 5) \o Lit.more
                  ELSE <<>>
    IN  IF pub_fields_found # <<>>
        THEN << Issue(class_name, T.NA, Lit.class_level, Lit.extract_class,
                      Lit.info_hiding_violation \o Str(Len(pub_fields_found))
                          \o Lit.public_instance \o field_list \o suffix
                          \o Lit.fields_should,
                      Absent, Lit.medium, pub_fields_found[1]) >>
        ELSE <<>>

(* "rank": len(issues) + 1 at every append: the position in the list.      *)
RankByPosition(issues) == [k \in 1..Len(issues) |-> [issues[k] EXCEPT !.rank = k]]

_create_basic_issues(code_content, file_path) ==
    LET class_name == ClassNameOf(file_path)
        long_methods == LongMethodScan(code_content, 1, class_name, FALSE, 0,
                                       <<>>, 0, <<>>)
    IN  IF long_methods.raised THEN long_methods
        ELSE Returned(RankByPosition(
                 long_methods.val
                 \o GodClassIssues(code_content, class_name)
                 \o InlineScan(code_content, 1, class_name)
                 \o FieldAssignScan(code_content, ReportedAssigns(code_content),
                                    class_name)
                 \o FieldDeclIssues(code_content, class_name)))

(***************************************************************************)
(* _generate_github_url.  repo_info is NoRepoInfo (None) or a record of    *)
(* owner, repo and branch; a line that is absent or 0 is falsy.            *)
(***************************************************************************)
NoRepoInfo == [present |-> FALSE, owner |-> <<>>, repo |-> <<>>, branch |-> <<>>]

RepoInfo(owner, repo, branch) ==
    [present |-> TRUE, owner |-> owner, repo |-> repo, branch |-> branch]

Truthy(n) == n # Absent /\ n # 0

(* A variant that anchors every line it is given, 0 included.              *)
AnchorsEveryLine(info, file_path, line_number) ==
    IF ~info.present THEN <<>>
    ELSE IF info.owner = <<>> \/ info.repo = <<>> THEN <<>>
    ELSE Lit.github_prefix \o info.owner \o Lit.slash \o info.repo \o Lit.blob
             \o info.branch \o Lit.slash \o file_path
             \o (IF line_number # Absent THEN Lit.hash_L \o Str(line_number) ELSE <<>>)

_generate_github_url(info, file_path, line_number) ==
    IF ~info.present THEN <<>>
    ELSE IF info.owner = <<>> \/ info.repo = <<>> THEN <<>>
    ELSE Lit.github_prefix \o info.owner \o Lit.slash \o info.repo \o Lit.blob
             \o info.branch \o Lit.slash \o file_path
             \o (IF Truthy(line_number) THEN Lit.hash_L \o Str(line_number) ELSE <<>>)

(***************************************************************************)
(* _find_function_line and _find_class_line.  The javalang syntax tree is  *)
(* rendered on the token lines: the source parses when its braces balance, *)
(* a top-level type is a declaration at brace depth 0 and its methods are  *)
(* the declarations at depth 1 that follow it.                             *)
(***************************************************************************)
RECURSIVE DepthBefore(_, _)
DepthBefore(code, n) ==
    IF n <= 1 THEN 0
    ELSE DepthBefore(code, n - 1)
         + CountTok(code[n - 1], T.lbrace) - CountTok(code[n - 1], T.rbrace)

AstParses(code) == DepthBefore(code, Len(code) + 1) = 0

DeclaresType(line, class_name) ==
    \E i \in 1..Len(line) :
        ClassDeclAt(line, i) /\ WordPrefix(line[i + 1]) = class_name

AstTypeLines(code, class_name) ==
    {n \in 1..Len(code) :
        DepthBefore(code, n) = 0 /\ DeclaresType(code[n], class_name)}

DeclaresMethod(line, func_name) ==
    \E i \in 1..Len(line) :
        /\ IsTypeToken(Tok(line, i))
        /\ Tok(line, i + 1) = func_name
        /\ Tok(line, i + 2) = T.lparen

AstMethodLines(code, class_name, func_name) ==
    {n \in 1..Len(code) :
        /\ DepthBefore(code, n) = 1
        /\ DeclaresMethod(code[n], func_name)
        /\ \E c \in AstTypeLines(code, class_name) :
              /\ c < n
              /\ \A m \in (c + 1)..n : DepthBefore(code, m) >= 1}

Min(S) == CHOOSE x \in S : \A y \in S : x <= y

TokContains(line, p) == \E i \in 1..Len(line) : Contains(line[i], p)

FirstTokWith(line, p) ==
    CHOOSE i \in 1..Len(line) :
        Contains(line[i], p) /\ \A j \in 1..(i - 1) : ~Contains(line[j], p)

DeclKeywords == {T.public, T.private, T.protected, T.void, T.int, T.String, T.boolean}

TextMethodLine(line, func_name) ==
    /\ TokContains(line, func_name)
    /\ HasTok(line, T.lparen)
    /\ \A j \in 1..(FirstTokWith(line, func_name) - 1) :
          ~Contains(line[j], Lit.line_comment) /\ ~Contains(line[j], Lit.line_open)
    /\ \E kw \in DeclKeywords : TokContains(line, kw)

_find_class_line(code_content, class_name) ==
    IF class_name = <<>> THEN 1
    ELSE IF AstParses(code_content) /\ AstTypeLines(code_content, class_name) # {}
    THEN Min(AstTypeLines(code_content, class_name))
    ELSE LET hits == {n \in 1..Len(code_content) :
                         DeclaresType(code_content[n], class_name)}
         IN  IF hits # {} THEN Min(hits) ELSE 1

_find_function_line(code_content, issue) ==
    LET func_name == issue.fn
        class_name == issue.cls
    IN  IF func_name = <<>> \/ func_name = T.NA
        THEN _find_class_line(code_content, class_name)
        ELSE IF /\ AstParses(code_content)
                /\ AstMethodLines(code_content, class_name, func_name) # {}
        THEN Min(AstMethodLines(code_content, class_name, func_name))
        ELSE LET hits == {n \in 1..Len(code_content) :
                             TextMethodLine(code_content[n], func_name)}
             IN  IF hits # {} THEN Min(hits) ELSE 1

(* Lines 282-286 and 321-325: every issue without a github_url gets one.   *)
BackfillUrls(info, issues, code_content, file_path) ==
    IF ~info.present THEN issues
    ELSE [k \in 1..Len(issues) |->
            IF issues[k].github_url # <<>> THEN issues[k]
            ELSE LET line_num == IF Truthy(issues[k].line) THEN issues[k].line
                                 ELSE _find_function_line(code_content, issues[k])
                 IN  [issues[k] EXCEPT !.github_url =
                         _generate_github_url(info, file_path, line_num)]]

(***************************************************************************)
(* _parse_crew_output and _parse_report_files.  A text the pipeline        *)
(* produces (result.raw, a report file) is described by what the parser    *)
(* can get out of it: whether it is empty, blank or the word None, what    *)
(* json.loads makes of the whole text, and what json.loads makes of the    *)
(* first "[ { ... } ]" stretch the regular expression finds in it.         *)
(***************************************************************************)
Text(shape, loads_ok, is_list, items, has_match, match_ok, match_items) ==
    [shape |-> shape, loads_ok |-> loads_ok, is_list |-> is_list, items |-> items,
     has_match |-> has_match, match_ok |-> match_ok, match_items |-> match_items]

EmptyText == Text("empty", FALSE, FALSE, <<>>, FALSE, FALSE, <<>>)

(* A text that is exactly a JSON array.                                    *)
JsonArrayText(items) ==
    Text("text", TRUE, TRUE, items, items # <<>>, items # <<>>, items)

(* Prose around a JSON array: json.loads fails, the pattern finds it.      *)
ProseWithArray(items) == Text("text", FALSE, FALSE, <<>>, TRUE, TRUE, items)

(* Prose without an array.                                                 *)
ProseText == Text("text", FALSE, FALSE, <<>>, FALSE, FALSE, <<>>)

NoFile == [exists |-> FALSE, writer |-> <<>>, text |-> EmptyText]

FileOf(writer, text) == [exists |-> TRUE, writer |-> writer, text |-> text]

ReportNames ==
    <<"planning_report.md", "issue_report.md", "analysis_report.md",
      "prompt_report.md", "localization_report.md", "ranking_report.md">>

ReportNameSet == {ReportNames[i] : i \in 1..Len(ReportNames)}

(* A directory of its own for every analysis.                              *)
PerRequestSlot(r, name) == <<r, name>>

(* Lines 227-233 and 437: Path(name) is relative to the working directory  *)
(* of the process, the same for every analysis.                            *)
ReportSlot(r, name) == name

Slots == { ReportSlot(r, n) : r \in Analyses, n \in ReportNameSet }

AddRanks(issues) ==
    [i \in 1..Len(issues) |->
        IF issues[i].rank = Absent THEN [issues[i] EXCEPT !.rank = i] ELSE issues[i]]

(* One round of the loop of _parse_report_files: the issues the file       *)
(* yields, or <<>> when the loop moves on to the next file.                *)
ParseReportFile(file) ==
    IF ~file.exists THEN <<>>
    ELSE IF ~file.text.has_match \/ ~file.text.match_ok THEN <<>>
    ELSE IF \E k \in 1..Len(file.text.match_items) : ~file.text.match_items[k].isdict
    THEN <<>>
    ELSE AddRanks(file.text.match_items)

_parse_report_files(files) ==
    IF ParseReportFile(files["ranking_report.md"]) # <<>>
    THEN ParseReportFile(files["ranking_report.md"])
    ELSE ParseReportFile(files["localization_report.md"])

_parse_crew_output(result, files) ==
    IF result.shape \in {"empty", "blank", "None"} THEN _parse_report_files(files)
    ELSE IF result.loads_ok
    THEN IF result.is_list /\ Len(result.items) > 0 THEN result.items
         ELSE _parse_report_files(files)
    ELSE IF result.has_match /\ result.match_ok /\ Len(result.match_items) > 0
    THEN result.match_items
    ELSE _parse_report_files(files)

(***************************************************************************)
(* The inputs of the exploration: three files (two of them with the same   *)
(* content under different paths, one whose lambda line makes the          *)
(* heuristic generator raise), and the texts the stages can produce.       *)
(***************************************************************************)
Src ==
    [
      Order |->
          << << <<"p", "u", "b", "l", "i", "c">>, <<"c", "l", "a", "s", "s">>, <<"O", "r", "d", "e", "r">>, <<"{">> >>,
       << <<"p", "r", "i", "v", "a", "t", "e">>, <<"S", "t", "r", "i", "n", "g">>, <<"n", "a", "m", "e">>, <<";">> >>,
       << <<"p", "u", "b", "l", "i", "c">>, <<"S", "t", "r", "i", "n", "g">>, <<"g", "e", "t", "N", "a", "m", "e">>, <<"(">>, <<")">>, <<"{">>, <<"r", "e", "t", "u", "r", "n">>, <<"n", "a", "m", "e">>, <<";">>, <<"}">> >>,
       << <<"p", "u", "b", "l", "i", "c">>, <<"v", "o", "i", "d">>, <<"p", "l", "a", "c", "e", "O", "r", "d", "e", "r">>, <<"(">>, <<")">>, <<"{">>, <<"}">> >>,
       << <<"p", "u", "b", "l", "i", "c">>, <<"v", "o", "i", "d">>, <<"c", "a", "n", "c", "e", "l", "O", "r", "d", "e", "r">>, <<"(">>, <<")">>, <<"{">>, <<"}">> >>,
       << <<"p", "u", "b", "l", "i", "c">>, <<"v", "o", "i", "d">>, <<"s", "h", "i", "p", "O", "r", "d", "e", "r">>, <<"(">>, <<")">>, <<"{">>, <<"}">> >>,
       << <<"p", "u", "b", "l", "i", "c">>, <<"v", "o", "i", "d">>, <<"r", "e", "f", "u", "n", "d">>, <<"(">>, <<")">>, <<"{">>, <<"}">> >>,
       << <<"p", "u", "b", "l", "i", "c">>, <<"v", "o", "i", "d">>, <<"a", "u", "d", "i", "t">>, <<"(">>, <<")">>, <<"{">>, <<"}">> >>,
       << <<"p", "u", "b", "l", "i", "c">>, <<"v", "o", "i", "d">>, <<"a", "r", "c", "h", "i", "v", "e">>, <<"(">>, <<")">>, <<"{">>, <<"}">> >>,
       << <<"}">> >> >>,
      Handler |->
          << << <<"p", "u", "b", "l", "i", "c">>, <<"c", "l", "a", "s", "s">>, <<"H", "a", "n", "d", "l", "e", "r">>, <<"{">> >>,
       << <<"R", "u", "n", "n", "a", "b", "l", "e">>, <<"r">>, <<"=">> >>,
       << <<"(">>, <<")">>, <<"-", ">">>, <<"{">>, <<"/", "*">>, <<"p", "u", "b", "l", "i", "c">>, <<"a", "p", "i">>, <<"*", "/">>, <<"}">>, <<";">> >>,
       << <<"}">> >> >> ]

(* The paths, names and texts of the sample inputs.                        *)
Sample ==
    [
      P_Order |-> <<"s", "r", "c", "/", "O", "r", "d", "e", "r", ".", "j", "a", "v", "a">>,
      P_unknown |-> <<"u", "n", "k", "n", "o", "w", "n", ".", "j", "a", "v", "a">>,
      P_Handler |-> <<"s", "r", "c", "/", "H", "a", "n", "d", "l", "e", "r", ".", "j", "a", "v", "a">>,
      P_readme |-> <<"R", "E", "A", "D", "M", "E", ".", "m", "d">>,
      N_Order |-> <<"O", "r", "d", "e", "r">>,
      N_OrderLogic |-> <<"O", "r", "d", "e", "r", "L", "o", "g", "i", "c">>,
      N_placeOrder |-> <<"p", "l", "a", "c", "e", "O", "r", "d", "e", "r">>,
      N_getName |-> <<"g", "e", "t", "N", "a", "m", "e">>,
      N_cancelOrder |-> <<"c", "a", "n", "c", "e", "l", "O", "r", "d", "e", "r">>,
      Sig_placeOrder |-> <<"p", "l", "a", "c", "e", "O", "r", "d", "e", "r", "(", ")">>,
      Sig_getName |-> <<"g", "e", "t", "N", "a", "m", "e", "(", ")">>,
      Sig_cancelOrder |-> <<"c", "a", "n", "c", "e", "l", "O", "r", "d", "e", "r", "(", ")">>,
      Rat_envy |-> <<"F", "e", "a", "t", "u", "r", "e", " ", "e", "n", "v", "y", ":", " ", "u", "s", "e", "s", " ", "C", "u", "s", "t", "o", "m", "e", "r", " ", "d", "a", "t", "a">>,
      Rat_hiding |-> <<"I", "n", "f", "o", "r", "m", "a", "t", "i", "o", "n", " ", "h", "i", "d", "i", "n", "g", ":", " ", "e", "x", "p", "o", "s", "e", "s", " ", "n", "a", "m", "e">>,
      Rat_move |-> <<"B", "e", "l", "o", "n", "g", "s", " ", "t", "o", " ", "a", "n", "o", "t", "h", "e", "r", " ", "c", "l", "a", "s", "s">>,
      O_owner |-> <<"a", "c", "m", "e">>,
      O_repo |-> <<"s", "h", "o", "p">>,
      O_branch |-> <<"m", "a", "i", "n">>,
      P_model_Order |-> <<"s", "r", "c", "/", "m", "o", "d", "e", "l", "/", "O", "r", "d", "e", "r", ".", "j", "a", "v", "a">>,
      P_Account |-> <<"s", "r", "c", "/", "A", "c", "c", "o", "u", "n", "t", ".", "j", "a", "v", "a">>,
      P_Empty |-> <<"s", "r", "c", "/", "E", "m", "p", "t", "y", ".", "j", "a", "v", "a">>,
      P_Big |-> <<"s", "r", "c", "/", "B", "i", "g", ".", "j", "a", "v", "a">>,
      N_getGreeting |-> <<"g", "e", "t", "G", "r", "e", "e", "t", "i", "n", "g">>,
      N_getId |-> <<"g", "e", "t", "I", "d">>,
      N_isActive |-> <<"i", "s", "A", "c", "t", "i", "v", "e">>,
      N_setTotal |-> <<"s", "e", "t", "T", "o", "t", "a", "l">>,
      Sig_getGreeting |-> <<"g", "e", "t", "G", "r", "e", "e", "t", "i", "n", "g", "(", ")">>,
      Sig_getId |-> <<"g", "e", "t", "I", "d", "(", ")">>,
      Rat_god |-> <<"G", "o", "d", " ", "c", "l", "a", "s", "s", ":", " ", "t", "o", "o", " ", "m", "a", "n", "y", " ", "r", "e", "s", "p", "o", "n", "s", "i", "b", "i", "l", "i", "t", "i", "e", "s">>,
      Rat_public |-> <<"E", "x", "p", "o", "s", "e", "s", " ", "p", "u", "b", "l", "i", "c", " ", "f", "i", "e", "l", "d", "s", " ", "o", "f", " ", "t", "h", "e", " ", "o", "r", "d", "e", "r">>,
      N_encapsulate |-> <<"e", "n", "c", "a", "p", "s", "u", "l", "a", "t", "e", " ", "f", "i", "e", "l", "d">> ]

InputFiles ==
    << [path |-> Sample.P_Order, content |-> Src.Order],
       [path |-> Sample.P_unknown, content |-> Src.Order],
       [path |-> Sample.P_Handler, content |-> Src.Handler] >>

SampleIssue ==
    [
      place |->
          Issue(Sample.N_Order, Sample.N_placeOrder, Sample.Sig_placeOrder, Lit.move_method, Sample.Rat_envy, 1, Lit.high, 4),
      getName |->
          Issue(Sample.N_Order, Sample.N_getName, Sample.Sig_getName, Lit.information_hiding, Sample.Rat_hiding, 2, Lit.low, 3),
      cancel |->
          Issue(Sample.N_Order, Sample.N_cancelOrder, Sample.Sig_cancelOrder, Lit.move_method, Sample.Rat_move, Absent, Lit.medium, Absent),
      logic |->
          Issue(Sample.N_OrderLogic, Sample.N_placeOrder, Sample.Sig_placeOrder, Lit.extract_method, Sample.Rat_move, 3, Lit.medium, 4) ]

(* What a pipeline run that completes can leave behind: result.raw of the  *)
(* ranking stage and the text of localization_report.md.                   *)
PipelineOutputs ==
    { [raw |-> JsonArrayText(<<SampleIssue.place, SampleIssue.getName, SampleIssue.cancel, SampleIssue.logic>>), loc |-> ProseText],
      [raw |-> JsonArrayText(<<SampleIssue.place, NotADict>>), loc |-> ProseText],
      [raw |-> ProseText, loc |-> ProseWithArray(<<SampleIssue.cancel>>)],
      [raw |-> EmptyText, loc |-> ProseText] }

(* How a pipeline run can fail: stage 0 is the construction of the crew,   *)
(* stage s > 0 is stage s of the sequential process, whose predecessors    *)
(* have written their files; msg is str(e).                                *)
PipelineFailures ==
    { [stage |-> 0, msg |-> Msg.Validation],
      [stage |-> 1, msg |-> Msg.RateLimit],
      [stage |-> 5, msg |-> Msg.Timeout],
      [stage |-> 6, msg |-> Msg.Quota] }

(* The localization report a run leaves when a later stage fails.          *)
PartialLocalization == ProseWithArray(<<SampleIssue.cancel>>)

(* The retry_backoff, repo_info and delay_between_files arguments the      *)
(* analyzer is built with.                                                 *)
AnalyzerArgs ==
    { [retry_backoff |-> 2, repo_info |-> RepoInfo(Sample.O_owner, Sample.O_repo, Sample.O_branch),
       delay_between_files |-> 2],
      [retry_backoff |-> 3, repo_info |-> NoRepoInfo, delay_between_files |-> 0] }

(* hash(code_content): an integer digest of the text.                      *)
RECURSIVE Digest(_, _)
Digest(ts, n) ==
    IF n = 0 THEN Len(ts)
    ELSE (Digest(ts, n - 1) * 31 + Len(ts[n]) + 7) % 65536

RECURSIVE DigestLines(_, _)
DigestLines(lines, n) ==
    IF n = 0 THEN Len(lines)
    ELSE (DigestLines(lines, n - 1) * 31 + Digest(lines[n], Len(lines[n]))) % 65536

hash(code_content) == DigestLines(code_content, Len(code_content))

(***************************************************************************)
(* State.  The constructor arguments, the analyzer's cache, the report     *)
(* files of the working directory, and the position and locals of the one  *)
(* analyze_single_file call in progress.  kickoffs counts the crew.kickoff *)
(* invocations of the call and pauses lists its time.sleep between the two *)
(* runs of a consistency check.  For the run of _run_single_analysis in    *)
(* progress, run_kickoffs counts crew.kickoff, run_sleeps lists the        *)
(* time.sleep durations, errors lists str(e) of every failed attempt,      *)
(* heuristic_calls and filter_calls count _create_basic_issues and         *)
(* _filter_and_validate_issues, cache_writes counts the stores to the      *)
(* cache (that of line 207 included), outcome names the return statement   *)
(* the run left by.  An exception that leaves analyze_single_file is kept  *)
(* in last_error (pc = "raised").                                          *)
(***************************************************************************)
VARIABLES
    max_retries, retry_backoff, repo_info, enable_consistency_check,
    delay_between_files,
    analysis_cache, report_files,
    pc, calls, cur, check_mode, run, attempt, result, last_error,
    first_result, second_result, ret, cache_hit,
    kickoffs, pauses, run_kickoffs, run_sleeps, errors,
    heuristic_calls, filter_calls, cache_writes, outcome

config == <<max_retries, retry_backoff, repo_info, enable_consistency_check,
            delay_between_files>>

locals == <<cur, check_mode, run, attempt, result, last_error,
            first_result, second_result, ret, cache_hit>>

run_history == <<run_kickoffs, run_sleeps, errors, heuristic_calls,
                 filter_calls, cache_writes, outcome>>

history == <<kickoffs, pauses, run_history>>

(***************************************************************************)
(* The state outside analyze_single_file.  Of one analyze_repository call: *)
(* its files argument (batch_files), the loop index idx, the results,     *)
(* the time.sleep durations between files and the position batch_pc.  Of  *)
(* one crew.kickoff taken stage by stage: the crew module imported, the    *)
(* task list of the crew, the output files of the tasks executed so far,   *)
(* in order, and the position kickoff_pc.  Of one application of the       *)
(* filter or of the heuristic generator to a sample: the sample, the       *)
(* issues passed in and the list returned.                                 *)
(***************************************************************************)
VARIABLES
    batch_files, idx, results, file_sleeps, batch_pc,
    crew_module, tasks, executed, kickoff_pc,
    sample, issues_in, issues_out, applied_fn

(***************************************************************************)
(* The state elsewhere.  Of one application of a function that takes no    *)
(* sample: its arguments (fn_args) and what it returned (fn_out).          *)
(***************************************************************************)
VARIABLES
    fn_args, fn_out

(***************************************************************************)
(* The state of server.py: its module globals (server_analysis_cache is    *)
(* the analysis_cache of line 24, _mongo_client and _feedback_collection   *)
(* hold 0 for None and else the number of the client they come from), the  *)
(* MongoClient objects constructed so far (clients), the documents         *)
(* inserted with the collection each went to (feedback), the BatchAnalyzer *)
(* objects the handlers constructed (analyzers) and the analyses they      *)
(* started (pipeline_runs).  The development server answers each request   *)
(* on a thread of its own: thread_pc is the position of a thread in        *)
(* submit_feedback, thread_doc and thread_collection its locals,           *)
(* response its last response; requests counts the requests received       *)
(* and last_request is the last of them.                                   *)
(***************************************************************************)
VARIABLES
    server_analysis_cache, _mongo_client, _feedback_collection,
    clients, feedback, analyzers, pipeline_runs,
    thread_pc, thread_doc, thread_collection, response,
    requests, last_request

server == <<server_analysis_cache, _mongo_client, _feedback_collection,
            clients, feedback, analyzers, pipeline_runs,
            thread_pc, thread_doc, thread_collection, response,
            requests, last_request>>

(***************************************************************************)
(* Analyses that run at the same time in one working directory: directory  *)
(* holds the report files, req_pc, req_step, req_out, req_result,          *)
(* req_raw and req_ret are the position and the locals of each analysis    *)
(* (the output its pipeline is going to produce, result.raw, raw_issues    *)
(* and the issues it returns).  last_op records, for each file name, the   *)
(* last write or unlink and the analysis that made it.                     *)
(***************************************************************************)
VARIABLES
    directory, last_op, req_pc, req_step, req_out, req_result, req_raw, req_ret

workdir == <<directory, last_op, req_pc, req_step, req_out, req_result, req_raw, req_ret>>

elsewhere == <<fn_args, fn_out, server, workdir>>

outside == <<batch_files, idx, results, file_sleeps, batch_pc,
             crew_module, tasks, executed, kickoff_pc,
             sample, issues_in, issues_out, applied_fn, elsewhere>>

vars == <<config, analysis_cache, report_files, pc, calls, locals, history, outside>>

code_content == InputFiles[cur].content

file_path == InputFiles[cur].path

(* hash(code_content) of each input file.                                  *)
Digests == [f \in DOMAIN InputFiles |-> hash(InputFiles[f].content)]

cache_key == Digests[cur]

(* _create_basic_issues(code_content, file_path) of each input file.       *)
BasicIssues ==
    [f \in DOMAIN InputFiles |->
        _create_basic_issues(InputFiles[f].content, InputFiles[f].path)]

rate_limit_wait == 60

consistency_pause == 2

Store(cache, key, issues) ==
    [k \in DOMAIN cache \cup {key} |-> IF k = key THEN issues ELSE cache[k]]

NoRunHistory ==
    /\ run_kickoffs' = 0
    /\ run_sleeps' = <<>>
    /\ errors' = <<>>
    /\ heuristic_calls' = 0
    /\ filter_calls' = 0
    /\ cache_writes' = 0
    /\ outcome' = "none"

Init ==
    /\ max_retries \in 1..MaxRetriesArg
    /\ \E args \in AnalyzerArgs :
          /\ retry_backoff = args.retry_backoff
          /\ repo_info = args.repo_info
          /\ delay_between_files = args.delay_between_files
    /\ enable_consistency_check \in BOOLEAN
    /\ analysis_cache = <<>>
    /\ report_files = [n \in ReportNameSet |-> NoFile]
    /\ pc = "idle"
    /\ calls = 0
    /\ cur = 1
    /\ check_mode = FALSE
    /\ run = 1
    /\ attempt = 1
    /\ result = EmptyText
    /\ last_error = <<>>
    /\ first_result = <<>>
    /\ second_result = <<>>
    /\ ret = <<>>
    /\ cache_hit = FALSE
    /\ kickoffs = 0
    /\ pauses = <<>>
    /\ run_kickoffs = 0
    /\ run_sleeps = <<>>
    /\ errors = <<>>
    /\ heuristic_calls = 0
    /\ filter_calls = 0
    /\ cache_writes = 0
    /\ outcome = "none"
    /\ batch_files = <<>>
    /\ idx = 1
    /\ results = <<>>
    /\ file_sleeps = <<>>
    /\ batch_pc = "idle"
    /\ crew_module = "none"
    /\ tasks = <<>>
    /\ executed = <<>>
    /\ kickoff_pc = "idle"
    /\ sample = 1
    /\ issues_in = <<>>
    /\ issues_out = Returned(<<>>)
    /\ applied_fn = "none"
    /\ fn_args = <<>>
    /\ fn_out = <<>>
    /\ server_analysis_cache = <<>>
    /\ _mongo_client = 0
    /\ _feedback_collection = 0
    /\ clients = 0
    /\ feedback = <<>>
    /\ analyzers = <<>>
    /\ pipeline_runs = 0
    /\ thread_pc = [t \in Threads |-> "idle"]
    /\ thread_doc = [t \in Threads |-> <<>>]
    /\ thread_collection = [t \in Threads |-> 0]
    /\ response = [t \in Threads |-> [status |-> 0, body |-> <<>>]]
    /\ requests = 0
    /\ directory = [s \in Slots |-> NoFile]
    /\ last_op = [n \in ReportNameSet |-> [op |-> "none", by |-> 0]]
    /\ req_pc = [r \in Analyses |-> "idle"]
    /\ req_step = [r \in Analyses |-> 1]
    /\ req_out = [r \in Analyses |-> [raw |-> EmptyText, loc |-> EmptyText]]
    /\ req_result = [r \in Analyses |-> EmptyText]
    /\ req_raw = [r \in Analyses |-> <<>>]
    /\ req_ret = [r \in Analyses |-> <<>>]
    /\ last_request = [route |-> "none", method |-> "", thread |-> 0, data |-> <<>>]


(***************************************************************************)
(* analyze_single_file, lines 186-210, up to the first step of the run:    *)
(* a cache hit returns the cached list, a miss starts run 1.  The report   *)
(* files found in the working directory are those of earlier calls         *)
(* (writer <<0, 0>>).                                                      *)
(***************************************************************************)
Stale(files) ==
    [n \in ReportNameSet |->
        IF files[n].exists THEN [files[n] EXCEPT !.writer = <<0, 0>>] ELSE NoFile]

(* The lookup never finds the key.                                         *)
NeverCached(f) == FALSE

(* Line 189.                                                               *)
Cached(f) == Digests[f] \in DOMAIN analysis_cache

analyze_single_file(f) ==
    /\ pc \in {"idle", "returned", "raised"}
    /\ calls < MaxCalls
    /\ calls' = calls + 1
    /\ cur' = f
    /\ report_files' = Stale(report_files)
    /\ kickoffs' = 0
    /\ pauses' = <<>>
    /\ NoRunHistory
    /\ run' = 1
    /\ attempt' = 1
    /\ result' = EmptyText
    /\ last_error' = <<>>
    /\ first_result' = <<>>
    /\ second_result' = <<>>
    /\ IF Cached(f)
       THEN /\ cache_hit' = TRUE
            /\ ret' = analysis_cache[Digests[f]]
            /\ check_mode' = FALSE
            /\ pc' = "returned"
       ELSE /\ cache_hit' = FALSE
            /\ ret' = <<>>
            /\ check_mode' = enable_consistency_check
            /\ pc' = "clean"
    /\ UNCHANGED <<config, outside, analysis_cache>>

(***************************************************************************)
(* _run_single_analysis, lines 225-239: the six report files are unlinked  *)
(* once, before the retry loop is entered.                                 *)
(***************************************************************************)
(* No unlink at all.                                                       *)
KeepFiles(files) == files

Unlinked(files) == [n \in ReportNameSet |-> NoFile]

CleanStaleFiles ==
    /\ pc = "clean"
    /\ report_files' = Unlinked(report_files)
    /\ attempt' = 1
    /\ result' = EmptyText
    /\ last_error' = <<>>
    /\ NoRunHistory
    /\ pc' = "attempt"
    /\ UNCHANGED <<config, outside, analysis_cache, calls, cur, check_mode, run,
                   first_result, second_result, ret, cache_hit, kickoffs, pauses>>

(* Line 233: _p.exists() is outside every try block.  Path.exists ignores  *)
(* a missing file and raises the other errors of stat, such as a working   *)
(* directory that may not be searched; the exception leaves                *)
(* _run_single_analysis and analyze_single_file.                           *)
StaleCheckRaises ==
    /\ pc = "clean"
    /\ last_error' = Msg.Permission
    /\ pc' = "raised"
    /\ UNCHANGED <<config, outside, analysis_cache, report_files, calls, cur,
                   check_mode, run, attempt, result, first_result, second_result,
                   ret, cache_hit, history>>

(***************************************************************************)
(* Lines 248-260: LocalizeAgent().crew() and crew.kickoff.  The stages run *)
(* in the order crew.py declares the tasks; a stage that completes writes  *)
(* its output_file, the last stage's output is result.raw.                 *)
(***************************************************************************)
StageText(n, loc_text, rank_text) ==
    IF n = "localization_report.md" THEN loc_text
    ELSE IF n = "ranking_report.md" THEN rank_text
    ELSE ProseText

WriteStages(files, upto, writer, loc_text, rank_text) ==
    [n \in ReportNameSet |->
        IF \E s \in 1..upto : ReportNames[s] = n
        THEN FileOf(writer, StageText(n, loc_text, rank_text))
        ELSE files[n]]

KickoffRaises ==
    /\ pc = "attempt"
    /\ \E fail \in PipelineFailures :
          /\ report_files' =
                 IF fail.stage = 0 THEN report_files
                 ELSE WriteStages(report_files, fail.stage - 1, <<run, attempt>>,
                                  PartialLocalization, ProseText)
          /\ kickoffs' = kickoffs + (IF fail.stage = 0 THEN 0 ELSE 1)
          /\ run_kickoffs' = run_kickoffs + (IF fail.stage = 0 THEN 0 ELSE 1)
          /\ last_error' = fail.msg
          /\ errors' = Append(errors, fail.msg)
    /\ pc' = "except"
    /\ UNCHANGED <<config, outside, analysis_cache, calls, cur, check_mode, run, attempt,
                   result, first_result, second_result, ret, cache_hit, pauses,
                   run_sleeps, heuristic_calls, filter_calls, cache_writes, outcome>>

KickoffReturns ==
    /\ pc = "attempt"
    /\ \E out \in PipelineOutputs :
          /\ report_files' =
                 WriteStages(report_files, Len(ReportNames), <<run, attempt>>,
                             out.loc, out.raw)
          /\ result' = out.raw
    /\ kickoffs' = kickoffs + 1
    /\ run_kickoffs' = run_kickoffs + 1
    /\ pc' = "parse"
    /\ UNCHANGED <<config, outside, analysis_cache, calls, cur, check_mode, run, attempt,
                   last_error, first_result, second_result, ret, cache_hit, pauses,
                   run_sleeps, errors, heuristic_calls, filter_calls, cache_writes,
                   outcome>>

(* The return of _run_single_analysis to analyze_single_file.              *)
ReturnFromRun(issues) ==
    IF ~check_mode
    THEN /\ pc' = "returned"
         /\ ret' = issues
         /\ UNCHANGED <<first_result, second_result>>
    ELSE IF run = 1
    THEN /\ pc' = "pause"
         /\ first_result' = issues
         /\ UNCHANGED <<ret, second_result>>
    ELSE /\ pc' = "compare"
         /\ second_result' = issues
         /\ UNCHANGED <<ret, first_result>>

(***************************************************************************)
(* Lines 264-292: parse, substitute the heuristic issues for an empty      *)
(* parse, filter, backfill the URLs, cache unless in check mode, return.   *)
(* An exception of the heuristic generator or of the filter goes to the    *)
(* handler of the attempt.                                                 *)
(***************************************************************************)
(* The empty parse is passed on as it is.                                  *)
NoSubstitution(raw_issues, basic) == Returned(raw_issues)

(* Lines 272-275.                                                          *)
SubstituteIfEmpty(raw_issues, basic) ==
    IF raw_issues = <<>> THEN basic ELSE Returned(raw_issues)

FinishAttempt ==
    /\ pc = "parse"
    /\ LET raw_issues == _parse_crew_output(result, report_files)
           substituted == SubstituteIfEmpty(raw_issues, BasicIssues[cur])
           filtered == IF substituted.raised THEN substituted
                       ELSE _filter_and_validate_issues(substituted.val,
                                code_content, file_path)
           filtered_issues == BackfillUrls(repo_info, filtered.val,
                                  code_content, file_path)
       IN  /\ heuristic_calls' = heuristic_calls + (IF raw_issues = <<>> THEN 1 ELSE 0)
           /\ filter_calls' = filter_calls + (IF substituted.raised THEN 0 ELSE 1)
           /\ IF filtered.raised
              THEN /\ last_error' = filtered.msg
                   /\ errors' = Append(errors, filtered.msg)
                   /\ pc' = "except"
                   /\ UNCHANGED <<analysis_cache, cache_writes, outcome, ret,
                                  first_result, second_result>>
              ELSE /\ analysis_cache' =
                          IF ~check_mode
                          THEN Store(analysis_cache, cache_key, filtered_issues)
                          ELSE analysis_cache
                   /\ cache_writes' = cache_writes + (IF ~check_mode THEN 1 ELSE 0)
                   /\ outcome' = IF raw_issues = <<>> THEN "substituted" ELSE "llm"
                   /\ ReturnFromRun(filtered_issues)
                   /\ UNCHANGED <<last_error, errors>>
    /\ UNCHANGED <<config, outside, report_files, calls, cur, check_mode, run, attempt,
                   result, cache_hit, kickoffs, pauses, run_kickoffs, run_sleeps>>

(***************************************************************************)
(* Lines 294-314: the handler of a failed attempt.                         *)
(***************************************************************************)
Retry(wait_time) ==
    /\ run_sleeps' = Append(run_sleeps, wait_time)
    /\ attempt' = attempt + 1
    /\ pc' = "attempt"

(* The exception of the attempt is raised again.                           *)
GiveUpRaising ==
    /\ pc' = "raised"
    /\ UNCHANGED <<run_sleeps, attempt>>

GiveUp ==
    /\ pc' = "fallback"
    /\ UNCHANGED <<run_sleeps, attempt>>

(* attempt <= max_retries in place of attempt < max_retries.               *)
MayRetryAtLast == attempt <= max_retries

(* Line 298.                                                               *)
MayRetry == attempt < max_retries

(* The two tests of lines 299 and 304 in the other order.                  *)
WaitForTransportFirst(error_msg) ==
    IF _is_llm_error(error_msg) THEN Power(retry_backoff, attempt - 1)
    ELSE IF _is_rate_limit_error(error_msg) THEN rate_limit_wait
    ELSE Absent

(* Lines 299-311: the time to sleep before the next attempt, Absent when   *)
(* the loop is left.                                                       *)
WaitFor(error_msg) ==
    IF _is_rate_limit_error(error_msg) THEN rate_limit_wait
    ELSE IF _is_llm_error(error_msg) THEN Power(retry_backoff, attempt - 1)
    ELSE Absent

HandleAttemptError ==
    /\ pc = "except"
    /\ IF MayRetry /\ WaitFor(last_error) # Absent
       THEN Retry(WaitFor(last_error))
       ELSE GiveUp
    /\ last_error' = <<>>
    /\ UNCHANGED <<config, outside, analysis_cache, report_files, calls, cur, check_mode,
                   run, result, first_result, second_result, ret, cache_hit,
                   kickoffs, pauses, run_kickoffs, errors, heuristic_calls,
                   filter_calls, cache_writes, outcome>>

(***************************************************************************)
(* Lines 317-331: the heuristic fallback after the loop.                   *)
(***************************************************************************)
(* The fallback's list is returned and not stored.                         *)
ReturnOnly(cache, fallback_issues) == cache

(* Line 327.                                                               *)
StoreFallback(cache, fallback_issues) == Store(cache, cache_key, fallback_issues)

HeuristicFallback ==
    /\ pc = "fallback"
    /\ heuristic_calls' = heuristic_calls + 1
    /\ LET generated == BasicIssues[cur]
           fallback_issues == BackfillUrls(repo_info, generated.val,
                                  code_content, file_path)
       IN  IF generated.raised
           THEN /\ outcome' = "fallback_failed"
                /\ ReturnFromRun(<<>>)
                /\ UNCHANGED <<analysis_cache, cache_writes>>
           ELSE /\ analysis_cache' = StoreFallback(analysis_cache, fallback_issues)
                /\ cache_writes' = cache_writes + 1
                /\ outcome' = "fallback"
                /\ ReturnFromRun(fallback_issues)
    /\ UNCHANGED <<config, outside, report_files, calls, cur, check_mode, run, attempt,
                   result, last_error, cache_hit, kickoffs, pauses, run_kickoffs,
                   run_sleeps, errors, filter_calls>>

(***************************************************************************)
(* analyze_single_file, lines 195-208: the pause between the two runs of   *)
(* the consistency check, and the choice between their results.            *)
(***************************************************************************)
PauseBetweenRuns ==
    /\ pc = "pause"
    /\ pauses' = Append(pauses, consistency_pause)
    /\ run' = 2
    /\ pc' = "clean"
    /\ UNCHANGED <<config, outside, analysis_cache, report_files, calls, cur, check_mode,
                   attempt, result, last_error, first_result, second_result, ret,
                   cache_hit, kickoffs, run_history>>

(* > in place of >=: a tie keeps the second run.                           *)
ChosenRunOnTie(first, second) == IF Len(first) > Len(second) THEN first ELSE second

ChosenRun(first, second) == IF Len(first) >= Len(second) THEN first ELSE second

CompareRuns ==
    /\ pc = "compare"
    /\ analysis_cache' =
           Store(analysis_cache, cache_key, ChosenRun(first_result, second_result))
    /\ cache_writes' = cache_writes + 1
    /\ ret' = ChosenRun(first_result, second_result)
    /\ pc' = "returned"
    /\ UNCHANGED <<config, outside, report_files, calls, cur, check_mode, run, attempt,
                   result, last_error, first_result, second_result, cache_hit,
                   kickoffs, pauses, run_kickoffs, run_sleeps, errors,
                   heuristic_calls, filter_calls, outcome>>

Next ==
    \/ \E f \in 1..Len(InputFiles) : analyze_single_file(f)
    \/ CleanStaleFiles
    \/ StaleCheckRaises
    \/ KickoffRaises
    \/ KickoffReturns
    \/ FinishAttempt
    \/ HandleAttemptError
    \/ HeuristicFallback
    \/ PauseBetweenRuns
    \/ CompareRuns

Spec == Init /\ [][Next]_vars

TypeOK ==
    /\ pc \in {"idle", "clean", "attempt", "parse", "except", "fallback",
               "pause", "compare", "returned", "raised"}
    /\ attempt \in 1..max_retries
    /\ run \in {1, 2}
    /\ calls \in 0..MaxCalls

(***************************************************************************)
(* analyze_repository, lines 69-173.  One call per analyzer, as server.py  *)
(* makes it: the files argument is a list of {path, content}; the Java     *)
(* files are analyzed in a loop, one analyze_single_file call each.        *)
(***************************************************************************)
MaxFiles == 3

(* The files a repository can hold.                                        *)
RepoFiles ==
    { InputFiles[f] : f \in DOMAIN InputFiles }
        \cup { [path |-> Sample.P_readme, content |-> Src.Handler] }

(* Line 91: f['path'].endswith('.java').                                   *)
IsJava(file) == EndsWith(file.path, T.dotjava)

java_files == SelectSeq(batch_files, IsJava)

(* A dict of the results list; method "" and the messages <<>> stand for   *)
(* keys the dict does not have.                                            *)
FileResult(path, issues, status, method, error, fallback_error) ==
    [file |-> path, issues |-> issues, status |-> status, method |-> method,
     error |-> error, fallback_error |-> fallback_error]

(* Lines 117-120 and 136-139: the URL of every issue with a line is set    *)
(* anew when repo_info is given.                                           *)
WithGithubUrls(info, issues, path) ==
    IF ~info.present THEN issues
    ELSE [k \in 1..Len(issues) |->
            IF issues[k].line = Absent THEN issues[k]
            ELSE [issues[k] EXCEPT !.github_url =
                     _generate_github_url(info, path, issues[k].line)]]

(* Lines 88-98.                                                            *)
analyze_repository(fs) ==
    /\ batch_pc = "idle"
    /\ pc = "idle"
    /\ batch_files' = fs
    /\ results' = <<>>
    /\ idx' = 1
    /\ batch_pc' = IF SelectSeq(fs, IsJava) = <<>> THEN "done" ELSE "next"
    /\ UNCHANGED <<elsewhere, config, analysis_cache, report_files, pc, calls, locals,
                   history, file_sleeps, crew_module, tasks, executed,
                   kickoff_pc, sample, issues_in, issues_out, applied_fn>>

(* A sleep before the first file too.                                      *)
AlwaysDelay(i) == TRUE

(* Line 108.                                                               *)
NeedsDelay(i) == i > 1

(* Lines 100-110: the head of the loop body.                               *)
BeginFile ==
    /\ batch_pc = "next"
    /\ file_sleeps' = IF NeedsDelay(idx)
                      THEN Append(file_sleeps, delay_between_files)
                      ELSE file_sleeps
    /\ batch_pc' = "call"
    /\ UNCHANGED <<elsewhere, config, analysis_cache, report_files, pc, calls, locals,
                   history, batch_files, idx, results, crew_module, tasks,
                   executed, kickoff_pc, sample, issues_in, issues_out,
                   applied_fn>>

(* Line 113.                                                               *)
CallSingleFile ==
    /\ batch_pc = "call"
    /\ pc = "idle"
    /\ \E f \in DOMAIN InputFiles :
          /\ InputFiles[f] = java_files[idx]
          /\ analyze_single_file(f)

(* The new result goes in front of the list.                               *)
RecordedFirst(rs, r) == <<r>> \o rs

(* Lines 122, 141 and 153: results.append.                                 *)
Recorded(rs, r) == Append(rs, r)

(* The results that hold the list object the cache holds for the key: the *)
(* successes of the analysis (not of the fallback of the loop) of a file   *)
(* with the same content.                                                  *)
SharesCachedList(rs, k) ==
    /\ cache_key \in DOMAIN analysis_cache
    /\ rs[k].status = "success"
    /\ rs[k].method = ""
    /\ java_files[k].content = code_content
    /\ rs[k].issues = analysis_cache[cache_key]

(* Lines 115-127: the call returned.  The list it returned is the list     *)
(* object the cache holds, and an earlier result of the same content       *)
(* holds: the new URLs show in all of them.                                *)
RecordResult ==
    /\ batch_pc = "call"
    /\ pc = "returned"
    /\ LET issues == WithGithubUrls(repo_info, ret, file_path)
           earlier == [k \in 1..Len(results) |->
                         IF SharesCachedList(results, k)
                         THEN [results[k] EXCEPT !.issues = issues]
                         ELSE results[k]]
       IN  /\ results' = Recorded(earlier,
                  FileResult(file_path, issues, "success", "", <<>>, <<>>))
           /\ analysis_cache' =
                  IF cache_key \in DOMAIN analysis_cache
                  THEN Store(analysis_cache, cache_key, issues)
                  ELSE analysis_cache
           /\ ret' = issues
    /\ idx' = idx + 1
    /\ batch_pc' = IF idx = Len(java_files) THEN "done" ELSE "next"
    /\ pc' = "idle"
    /\ UNCHANGED <<elsewhere, config, report_files, calls, cur, check_mode, run, attempt,
                   result, last_error, first_result, second_result, cache_hit,
                   history, batch_files, file_sleeps, crew_module, tasks,
                   executed, kickoff_pc, sample, issues_in, issues_out,
                   applied_fn>>

(* The heuristic issues are recorded as a plain success, and an empty      *)
(* success when the generator raised.                                      *)
PlainSuccess(path, generated, error_msg, info) ==
    FileResult(path, WithGithubUrls(info, generated.val, path),
               "success", "", <<>>, <<>>)

(* Lines 132-159: the entry of a file whose analyze_single_file raised.    *)
FallbackResult(path, generated, error_msg, info) ==
    IF generated.raised
    THEN FileResult(path, <<>>, "error", "", error_msg, generated.msg)
    ELSE FileResult(path, WithGithubUrls(info, generated.val, path),
                    "success", "fallback_heuristic", <<>>, <<>>)

(* Lines 129-159: the call raised.                                         *)
FallbackOnError ==
    /\ batch_pc = "call"
    /\ pc = "raised"
    /\ results' = Recorded(results,
           FallbackResult(file_path, BasicIssues[cur], last_error, repo_info))
    /\ idx' = idx + 1
    /\ batch_pc' = IF idx = Len(java_files) THEN "done" ELSE "next"
    /\ pc' = "idle"
    /\ UNCHANGED <<elsewhere, config, analysis_cache, report_files, calls, locals, history,
                   batch_files, file_sleeps, crew_module, tasks, executed,
                   kickoff_pc, sample, issues_in, issues_out, applied_fn>>

NextBatch ==
    \/ \E fs \in UNION { [1..n -> RepoFiles] : n \in 0..MaxFiles } :
          /\ Len(SelectSeq(fs, IsJava)) <= MaxCalls
          /\ analyze_repository(fs)
    \/ BeginFile
    \/ CallSingleFile
    \/ CleanStaleFiles
    \/ StaleCheckRaises
    \/ KickoffRaises
    \/ KickoffReturns
    \/ FinishAttempt
    \/ HandleAttemptError
    \/ HeuristicFallback
    \/ PauseBetweenRuns
    \/ CompareRuns
    \/ RecordResult
    \/ FallbackOnError

(* The analyzer of the batch makes one attempt per run.                    *)
InitBatch == Init /\ max_retries = 1

SpecBatch == InitBatch /\ [][NextBatch]_vars


(***************************************************************************)
(* The crew of one pipeline run, stage by stage.  batch_analyzer.py takes  *)
(* LocalizeAgent from the package localize_agent.crew and, when the        *)
(* package is not installed, from the module crew beside it (lines 9-14); *)
(* the two modules build the crew from different task lists.  A task is    *)
(* named here by its method; it writes its output_file when it completes.  *)
(***************************************************************************)
MaxKickoffs == 2

(* The @task methods in the order the class declares them: self.tasks.     *)
DeclaredTasks ==
    << [name |-> "planning_task",
         output_file |-> "planning_report.md"],
       [name |-> "design_issue_identification_task",
         output_file |-> "issue_report.md"],
       [name |-> "code_analysis_task",
         output_file |-> "analysis_report.md"],
       [name |-> "prompt_engineering_task",
         output_file |-> "prompt_report.md"],
       [name |-> "design_issue_localization_task",
         output_file |-> "localization_report.md"],
       [name |-> "ranking_task",
         output_file |-> "ranking_report.md"] >>

(* active_tasks of localize_agent/crew.py.                                 *)
active_tasks == Tail(DeclaredTasks)

(* The tasks argument of Crew(...) in the crew() of each module.           *)
CrewTasks(module) ==
    IF module = "localize_agent.crew" THEN active_tasks ELSE DeclaredTasks

(* Lines 9-14 of batch_analyzer.py: the import at load time.              *)
ImportLocalizeAgent(module) ==
    /\ crew_module = "none"
    /\ crew_module' = module
    /\ kickoff_pc' = "ready"
    /\ UNCHANGED <<elsewhere, config, analysis_cache, report_files, pc, calls, locals,
                   history, batch_files, idx, results, file_sleeps, batch_pc,
                   tasks, executed, sample, issues_in, issues_out, applied_fn>>

(* Lines 227-250: the stale files are deleted, the crew is built and       *)
(* kickoff starts.                                                         *)
StartKickoff ==
    /\ kickoff_pc \in {"ready", "returned", "raised"}
    /\ kickoffs < MaxKickoffs
    /\ report_files' = Unlinked(report_files)
    /\ tasks' = CrewTasks(crew_module)
    /\ executed' = <<>>
    /\ kickoffs' = kickoffs + 1
    /\ kickoff_pc' = "running"
    /\ UNCHANGED <<elsewhere, config, analysis_cache, pc, calls, locals, pauses,
                   run_history, batch_files, idx, results, file_sleeps,
                   batch_pc, crew_module, sample, issues_in, issues_out,
                   applied_fn>>

(* Process.sequential: the next task of the list runs to its end and       *)
(* writes its output file.                                                 *)
ExecuteTask ==
    /\ kickoff_pc = "running"
    /\ Len(executed) < Len(tasks)
    /\ LET task == tasks[Len(executed) + 1]
       IN  /\ executed' = Append(executed, task.name)
           /\ report_files' =
                  [report_files EXCEPT ![task.output_file] =
                       FileOf(<<run, kickoffs>>, ProseText)]
    /\ UNCHANGED <<elsewhere, config, analysis_cache, pc, calls, locals, history,
                   batch_files, idx, results, file_sleeps, batch_pc,
                   crew_module, tasks, kickoff_pc, sample, issues_in,
                   issues_out, applied_fn>>

(* The next task raises: kickoff raises and no later task runs.            *)
TaskRaises ==
    /\ kickoff_pc = "running"
    /\ Len(executed) < Len(tasks)
    /\ kickoff_pc' = "raised"
    /\ UNCHANGED <<elsewhere, config, analysis_cache, report_files, pc, calls, locals,
                   history, batch_files, idx, results, file_sleeps, batch_pc,
                   crew_module, tasks, executed, sample, issues_in,
                   issues_out, applied_fn>>

(* Every task has run: kickoff returns the output of the last one.         *)
KickoffDone ==
    /\ kickoff_pc = "running"
    /\ Len(executed) = Len(tasks)
    /\ kickoff_pc' = "returned"
    /\ UNCHANGED <<elsewhere, config, analysis_cache, report_files, pc, calls, locals,
                   history, batch_files, idx, results, file_sleeps, batch_pc,
                   crew_module, tasks, executed, sample, issues_in,
                   issues_out, applied_fn>>

NextCrew ==
    \/ \E module \in {"localize_agent.crew", "crew"} :
          ImportLocalizeAgent(module)
    \/ StartKickoff
    \/ ExecuteTask
    \/ TaskRaises
    \/ KickoffDone

SpecCrew == Init /\ [][NextCrew]_vars

(***************************************************************************)
(* The filter and the heuristic generator applied to sample files, one     *)
(* application per behaviour.  The samples: classes that declare or only   *)
(* mention the class an issue names, classes with a share of accessors     *)
(* around the model-class limit, methods with a line count around the      *)
(* long-method limit, classes with a number of business methods around     *)
(* the god-class limit, and a file the generator raises on.                *)
(***************************************************************************)
FunctionSamples ==
    LET class_Big == << <<"p", "u", "b", "l", "i", "c">>, <<"c", "l", "a", "s", "s">>, <<"B", "i", "g">>, <<"{">> >>
        open_run == << <<"p", "u", "b", "l", "i", "c">>, <<"v", "o", "i", "d">>, <<"r", "u", "n">>, <<"(">>, <<")">>, <<"{">> >>
        open_stop == << <<"p", "u", "b", "l", "i", "c">>, <<"v", "o", "i", "d">>, <<"s", "t", "o", "p">>, <<"(">>, <<")">>, <<"{">> >>
        statement == << <<"t", "i", "c", "k">>, <<"(">>, <<")">>, <<";">> >>
        open_block == << <<"i", "f">>, <<"(">>, <<"r", "e", "a", "d", "y">>, <<")">>, <<"{">> >>
        brace == << <<"}">> >>
        greeting == << <<"p", "u", "b", "l", "i", "c">>, <<"S", "t", "r", "i", "n", "g">>, <<"g", "e", "t", "G", "r", "e", "e", "t", "i", "n", "g">>, <<"(">>, <<")">>, <<"{">>, <<"r", "e", "t", "u", "r", "n">>, <<"n", "a", "m", "e">>, <<";">>, <<"}">> >>
        public_field == << <<"p", "u", "b", "l", "i", "c">>, <<"i", "n", "t">>, <<"t", "o", "t", "a", "l">>, <<";">> >>
        (* Order has a field of the class OrderLogic.                      *)
        Ref == << << <<"p", "u", "b", "l", "i", "c">>, <<"c", "l", "a", "s", "s">>, <<"O", "r", "d", "e", "r">>, <<"{">> >>,
                  << <<"p", "r", "i", "v", "a", "t", "e">>, <<"O", "r", "d", "e", "r", "L", "o", "g", "i", "c">>, <<"l", "o", "g", "i", "c">>, <<";">> >>,
                  << <<"p", "u", "b", "l", "i", "c">>, <<"v", "o", "i", "d">>, <<"p", "l", "a", "c", "e", "O", "r", "d", "e", "r">>, <<"(">>, <<")">>, <<"{">>, <<"l", "o", "g", "i", "c">>, <<".">>, <<"r", "u", "n">>, <<"(">>, <<")">>, <<";">>, <<"}">> >>,
                  << <<"}">> >> >>
        (* Four accessors among five methods.                              *)
        Account == << << <<"p", "u", "b", "l", "i", "c">>, <<"c", "l", "a", "s", "s">>, <<"A", "c", "c", "o", "u", "n", "t">>, <<"{">> >>,
                      << <<"p", "r", "i", "v", "a", "t", "e">>, <<"S", "t", "r", "i", "n", "g">>, <<"n", "a", "m", "e">>, <<";">> >>,
                      << <<"p", "u", "b", "l", "i", "c">>, <<"S", "t", "r", "i", "n", "g">>, <<"g", "e", "t", "N", "a", "m", "e">>, <<"(">>, <<")">>, <<"{">>, <<"r", "e", "t", "u", "r", "n">>, <<"n", "a", "m", "e">>, <<";">>, <<"}">> >>,
                      << <<"p", "u", "b", "l", "i", "c">>, <<"v", "o", "i", "d">>, <<"s", "e", "t", "N", "a", "m", "e">>, <<"(">>, <<"S", "t", "r", "i", "n", "g">>, <<"n">>, <<")">>, <<"{">>, <<"n", "a", "m", "e">>, <<"=">>, <<"n">>, <<";">>, <<"}">> >>,
                      << <<"p", "u", "b", "l", "i", "c">>, <<"i", "n", "t">>, <<"g", "e", "t", "I", "d">>, <<"(">>, <<")">>, <<"{">>, <<"r", "e", "t", "u", "r", "n">>, <<"1">>, <<";">>, <<"}">> >>,
                      << <<"p", "u", "b", "l", "i", "c">>, <<"b", "o", "o", "l", "e", "a", "n">>, <<"i", "s", "A", "c", "t", "i", "v", "e">>, <<"(">>, <<")">>, <<"{">>, <<"r", "e", "t", "u", "r", "n">>, <<"t", "r", "u", "e">>, <<";">>, <<"}">> >>,
                      << <<"p", "u", "b", "l", "i", "c">>, <<"v", "o", "i", "d">>, <<"d", "e", "p", "o", "s", "i", "t">>, <<"(">>, <<")">>, <<"{">>, <<"}">> >>,
                      << <<"}">> >> >>
        Empty == << << <<"p", "u", "b", "l", "i", "c">>, <<"c", "l", "a", "s", "s">>, <<"E", "m", "p", "t", "y">>, <<"{">> >>,
                    << <<"}">> >> >>
        without(lines, k) ==
            SubSeq(lines, 1, k - 1) \o SubSeq(lines, k + 1, Len(lines))
        (* One method run of n counted lines: n - 1 statements and the     *)
        (* closing brace.                                                  *)
        long(n) ==
            <<class_Big, open_run>> \o [k \in 1..(n - 1) |-> statement]
                \o <<brace, brace>>
        (* The method has 30 lines, and a block that ends on its third.    *)
        nested ==
            <<class_Big, open_run, open_block, statement, brace>>
                \o [k \in 1..26 |-> statement] \o <<brace, brace>>
        (* Two methods, of 26 and of 21 counted lines.                     *)
        two ==
            <<class_Big, open_run>> \o [k \in 1..25 |-> statement]
                \o <<brace, open_stop>> \o [k \in 1..20 |-> statement]
                \o <<brace, brace>>
        (* A method of 27 lines without a brace, then a method on one line. *)
        restart ==
            <<class_Big, open_run>> \o [k \in 1..27 |-> statement]
                \o <<Src.Order[4], brace>>
        (* Order with its accessor, three accessors more and the first n   *)
        (* of its six business methods.                                    *)
        god(n) ==
            SubSeq(Src.Order, 1, 3) \o SubSeq(Account, 4, 6)
                \o SubSeq(Src.Order, 4, 3 + n) \o <<brace>>
        (* Five business methods and getGreeting.                          *)
        god_greeting ==
            SubSeq(god(5), 1, Len(god(5)) - 1) \o <<greeting, brace>>
        (* Six business methods and a public field.                        *)
        god_field == <<Src.Order[1], public_field>> \o Tail(god(6))
    IN  << [path |-> Sample.P_Order, content |-> Src.Order],
           [path |-> Sample.P_model_Order, content |-> Src.Order],
           [path |-> Sample.P_Order, content |-> Ref],
           [path |-> Sample.P_Account, content |-> Account],
           [path |-> Sample.P_Account, content |-> without(Account, 6)],
           [path |-> Sample.P_Account, content |-> without(Account, 7)],
           [path |-> Sample.P_Empty, content |-> Empty],
           [path |-> Sample.P_Big, content |-> long(19)],
           [path |-> Sample.P_Big, content |-> long(20)],
           [path |-> Sample.P_Big, content |-> long(21)],
           [path |-> Sample.P_Big, content |-> long(22)],
           [path |-> Sample.P_Big, content |-> long(25)],
           [path |-> Sample.P_Big, content |-> long(26)],
           [path |-> Sample.P_Big, content |-> nested],
           [path |-> Sample.P_Big, content |-> two],
           [path |-> Sample.P_Big, content |-> restart],
           [path |-> Sample.P_Order, content |-> god(3)],
           [path |-> Sample.P_Order, content |-> god(4)],
           [path |-> Sample.P_Order, content |-> god(5)],
           [path |-> Sample.P_Order, content |-> god(6)],
           [path |-> Sample.P_Order, content |-> god_greeting],
           [path |-> Sample.P_Order, content |-> god_field],
           [path |-> Sample.P_Handler, content |-> Src.Handler] >>

(* The issues a parsed pipeline output is made of here.                    *)
CandidateIssues ==
    {SampleIssue.place, SampleIssue.getName, SampleIssue.logic,
     Issue(Sample.N_Order, Sample.N_getGreeting, Sample.Sig_getGreeting, Lit.information_hiding, Sample.Rat_hiding, 1, Lit.low, 3),
     Issue(<<>>, Sample.N_getId, Sample.Sig_getId, Sample.N_encapsulate, Sample.Rat_hiding, 2, Lit.low, 5),
     Issue(<<>>, Sample.N_setTotal, <<>>, Lit.information_hiding, Sample.Rat_move, 1, Lit.low, Absent),
     Issue(<<>>, Sample.N_isActive, <<>>, Lit.move_method, Sample.Rat_public, 1, Lit.low, Absent),
     Issue(<<>>, T.NA, Lit.class_level, Lit.extract_class, Sample.Rat_god, 1, Lit.high, 1),
     Issue(Sample.N_Order, T.NA, Lit.class_level, Lit.extract_class, Sample.Rat_god, 1, Lit.high, 1),
     Issue(<<>>, Sample.N_cancelOrder, Sample.Sig_cancelOrder, Lit.move_method, Sample.Rat_move, 2, Lit.medium, 5)}

MaxIssues == 2

(* Line 278: _filter_and_validate_issues(issues, code_content, file_path). *)
ApplyFilter(s, issues) ==
    /\ applied_fn = "none"
    /\ sample' = s
    /\ issues_in' = issues
    /\ issues_out' = _filter_and_validate_issues(issues,
                         FunctionSamples[s].content, FunctionSamples[s].path)
    /\ applied_fn' = "_filter_and_validate_issues"
    /\ UNCHANGED <<elsewhere, config, analysis_cache, report_files, pc, calls, locals,
                   history, batch_files, idx, results, file_sleeps, batch_pc,
                   crew_module, tasks, executed, kickoff_pc>>

(* Lines 133 and 319: _create_basic_issues(code_content, file_path).       *)
ApplyGenerator(s) ==
    /\ applied_fn = "none"
    /\ sample' = s
    /\ issues_in' = <<>>
    /\ issues_out' = _create_basic_issues(FunctionSamples[s].content,
                                          FunctionSamples[s].path)
    /\ applied_fn' = "_create_basic_issues"
    /\ UNCHANGED <<elsewhere, config, analysis_cache, report_files, pc, calls, locals,
                   history, batch_files, idx, results, file_sleeps, batch_pc,
                   crew_module, tasks, executed, kickoff_pc>>

(* The arguments _generate_github_url is applied to: no repo_info, and     *)
(* every repo_info whose owner, repo and branch are empty or not; a path;  *)
(* no line, line 0 and lines of one, two and three digits.                 *)
UrlArguments ==
    [info : {NoRepoInfo}
              \cup { RepoInfo(owner, repo, branch) :
                        owner \in {<<>>, Sample.O_owner},
                        repo \in {<<>>, Sample.O_repo},
                        branch \in {<<>>, Sample.O_branch, Sample.N_Order} },
     file_path : {Sample.P_Order, Sample.P_readme, <<>>},
     line_number : {Absent, 0, 1, 7, 10, 42, 120}]

(* Lines 119, 286, 608: self._generate_github_url(file_path, line).        *)
ApplyUrl(args) ==
    /\ applied_fn = "none"
    /\ fn_args' = args
    /\ fn_out' = _generate_github_url(args.info, args.file_path, args.line_number)
    /\ applied_fn' = "_generate_github_url"
    /\ UNCHANGED <<config, analysis_cache, report_files, pc, calls, locals,
                   history, batch_files, idx, results, file_sleeps, batch_pc,
                   crew_module, tasks, executed, kickoff_pc,
                   sample, issues_in, issues_out, server, workdir>>

(* What _parse_crew_output is applied to: result.raw and the two report    *)
(* files it may read.  The texts are the empty, blank and None texts, a    *)
(* JSON array (empty, of issues, with an element that is no object), prose *)
(* with and without an array, a JSON object that holds an array (json.loads*)
(* succeeds, the pattern matches inside it) and prose with two arrays (the *)
(* greedy pattern spans both, json.loads of the match fails).              *)
ParseArguments ==
    LET texts == { EmptyText,
                   Text("blank", FALSE, FALSE, <<>>, FALSE, FALSE, <<>>),
                   Text("None", FALSE, FALSE, <<>>, FALSE, FALSE, <<>>),
                   JsonArrayText(<<>>),
                   JsonArrayText(<<SampleIssue.place, SampleIssue.getName>>),
                   JsonArrayText(<<SampleIssue.place, NotADict>>),
                   ProseWithArray(<<SampleIssue.cancel>>),
                   ProseWithArray(<<SampleIssue.logic, NotADict, SampleIssue.cancel>>),
                   ProseText,
                   Text("text", TRUE, FALSE, <<>>, TRUE, TRUE, <<SampleIssue.logic>>),
                   Text("text", FALSE, FALSE, <<>>, TRUE, FALSE, <<>>) }
        reports == {NoFile} \cup { FileOf(<<1, 1>>, t) : t \in texts }
    IN  { [result |-> t,
           files |-> [n \in ReportNameSet |->
                         IF n = "ranking_report.md" THEN rk
                         ELSE IF n = "localization_report.md" THEN lc
                         ELSE NoFile]] :
          t \in texts, rk \in reports, lc \in reports }

(* Line 263: raw_issues = self._parse_crew_output(result, file_path).      *)
ApplyParse(args) ==
    /\ applied_fn = "none"
    /\ fn_args' = args
    /\ fn_out' = _parse_crew_output(args.result, args.files)
    /\ applied_fn' = "_parse_crew_output"
    /\ UNCHANGED <<config, analysis_cache, report_files, pc, calls, locals,
                   history, batch_files, idx, results, file_sleeps, batch_pc,
                   crew_module, tasks, executed, kickoff_pc,
                   sample, issues_in, issues_out, server, workdir>>

NextFunctions ==
    \/ \E s \in DOMAIN FunctionSamples :
          \E issues \in UNION { [1..n -> CandidateIssues] : n \in 0..MaxIssues } :
              ApplyFilter(s, issues)
    \/ \E s \in DOMAIN FunctionSamples : ApplyGenerator(s)
    \/ \E args \in UrlArguments : ApplyUrl(args)
    \/ \E args \in ParseArguments : ApplyParse(args)

(* One analyzer is enough: the two functions read none of its fields.      *)
InitFunctions == Init /\ max_retries = 1 /\ ~enable_consistency_check /\ ~repo_info.present

SpecFunctions == InitFunctions /\ [][NextFunctions]_vars

(***************************************************************************)
(* server.py.  A value that may be None is None or Some(v); a JSON body is *)
(* a dict whose keys may be missing, and a body that is no JSON object has *)
(* json = FALSE: request.json raises, or returns a value without get.      *)
(***************************************************************************)
None == [none |-> TRUE, val |-> <<>>]

Some(v) == [none |-> FALSE, val |-> v]

Missing == [given |-> FALSE, value |-> None]

Given(x) == [given |-> TRUE, value |-> x]

(* dict.get(key, default).                                                 *)
Get(data, key, default) == IF data[key].given THEN data[key].value ELSE default

(* not x, of None, a string and a list.                                    *)
Falsy(x) == x.none \/ Len(x.val) = 0

Whitespace == {" ", "\t", "\n", "\r"}

(* str.strip().                                                            *)
RECURSIVE Strip(_)
Strip(s) ==
    IF s = <<>> THEN s
    ELSE IF s[1] \in Whitespace THEN Strip(Tail(s))
    ELSE IF s[Len(s)] \in Whitespace THEN Strip(SubSeq(s, 1, Len(s) - 1))
    ELSE s

(* str.split(sep) for a separator of one character.                        *)
RECURSIVE Split(_, _)
Split(s, sep) ==
    IF \A i \in 1..Len(s) : s[i] # sep THEN <<s>>
    ELSE LET i == Min({k \in 1..Len(s) : s[k] = sep})
         IN  <<SubSeq(s, 1, i - 1)>> \o Split(SubSeq(s, i + 1, Len(s)), sep)

(* Fields that are kept as they were sent.                                 *)
UntrimmedFields(data) ==
    [email |-> IF Falsy(Get(data, "email", None)) THEN <<>>
               ELSE Get(data, "email", None).val,
     comment |-> IF Falsy(Get(data, "comment", None)) THEN <<>>
                 ELSE Get(data, "comment", None).val]

(* Lines 56-57: (data.get('email') or '').strip(), and the comment alike.  *)
FeedbackFields(data) ==
    [email |-> Strip(IF Falsy(Get(data, "email", None)) THEN <<>>
                     ELSE Get(data, "email", None).val),
     comment |-> Strip(IF Falsy(Get(data, "comment", None)) THEN <<>>
                       ELSE Get(data, "comment", None).val)]

(* A RepoInfo only of two parts that are not empty.                        *)
RepoInfoOfTwoParts(repo, branch) ==
    IF Falsy(repo) \/ ~Contains(repo.val, Lit.slash) THEN NoRepoInfo
    ELSE LET parts == Split(repo.val, "/")
         IN  IF Len(parts) >= 2 /\ parts[1] # <<>> /\ parts[2] # <<>>
             THEN RepoInfo(parts[1], parts[2], branch.val)
             ELSE NoRepoInfo

(* Lines 108-116 and 172-180.  The branch of a request is a string here.   *)
RepoInfoOf(repo, branch) ==
    IF Falsy(repo) \/ ~Contains(repo.val, Lit.slash) THEN NoRepoInfo
    ELSE LET parts == Split(repo.val, "/")
         IN  IF Len(parts) >= 2
             THEN RepoInfo(parts[1], parts[2], branch.val)
             ELSE NoRepoInfo

(* Lines 236-298, on token lines: 'public ' is a word public that another  *)
(* token follows on its line, and a line holds '(' when a token does.      *)
create_fallback_issues(code, path, info) ==
    LET cls == RemoveAll(LastComponent(path), T.dotjava)
        Words(line, w) == {k \in 1..(Len(line) - 1) : EndsWith(line[k], w)}
        url(line_no) ==
            IF info.present /\ info.owner # <<>> /\ info.repo # <<>>
            THEN Lit.github_prefix \o info.owner \o Lit.slash \o info.repo
                     \o Lit.blob \o info.branch \o Lit.slash \o path
                     \o Lit.hash_L \o Str(line_no)
            ELSE <<>>
        issue(fn, sig, rtype, rationale, rank, line_no) ==
            [Issue(cls, fn, sig, rtype, rationale, rank, Lit.high, line_no)
                EXCEPT !.github_url = url(line_no)]
        RECURSIVE Scan(_, _, _, _, _)
        Scan(i, in_method, count, name, issues) ==
            IF i > Len(code) THEN issues
            ELSE IF Words(code[i], T.public) # {} /\ TokContains(code[i], T.lparen)
                    /\ TokContains(code[i], T.lbrace)
            THEN Scan(i + 1, TRUE, 0,
                      code[i][Min({k \in 1..Len(code[i]) :
                                      Contains(code[i][k], T.lparen)}) - 1],
                      issues)
            ELSE IF ~in_method THEN Scan(i + 1, FALSE, count, name, issues)
            ELSE IF ~TokContains(code[i], T.rbrace)
            THEN Scan(i + 1, TRUE, count + 1, name, issues)
            ELSE Scan(i + 1, FALSE, count + 1, name,
                      IF count + 1 > 30
                      THEN Append(issues,
                               issue(name, name \o Lit.ellipsis_args,
                                     Lit.extract_method,
                                     Lit.too_long \o Str(count + 1) \o Lit.lines_extract,
                                     Len(issues) + 1, i - (count + 1)))
                      ELSE issues)
        long == Scan(1, FALSE, 0, <<>>, <<>>)
        method_count ==
            LET RECURSIVE Sum(_)
                Sum(n) == IF n = 0 THEN 0
                          ELSE Sum(n - 1) + Cardinality(Words(code[n], T.public))
                                   + Cardinality(Words(code[n], T.private))
            IN  Sum(Len(code))
    IN  IF method_count > 15
        THEN Append(long, issue(T.NA, Lit.class_level, Lit.extract_class,
                                Lit.too_many \o Str(method_count) \o Lit.consider_splitting,
                                Len(long) + 1, 1))
        ELSE long

(***************************************************************************)
(* The requests the server is sent.  An analysis the handlers delegate to  *)
(* the Batch Analyzer is taken by its outcome: the issues                  *)
(* analyze_single_file returns before the URLs are filled in, or the       *)
(* exception it raises.                                                    *)
(***************************************************************************)
EmptyBody ==
    [json |-> TRUE, email |-> Missing, comment |-> Missing, repo |-> Missing,
     branch |-> Missing, files |-> Missing, path |-> Missing, content |-> Missing]

Requests ==
    LET text(t) == Given(Some(t))
        NoJson == [EmptyBody EXCEPT !.json = FALSE]
        repos == { Missing, Given(None), text(<<>>), text(Lit.slash),
                   text(Sample.O_owner),
                   text(Sample.O_owner \o Lit.slash \o Sample.O_repo),
                   text(Lit.slash \o Sample.O_repo),
                   text(Sample.O_owner \o Lit.slash),
                   text(Sample.O_owner \o Lit.slash \o Sample.O_repo
                            \o Lit.slash \o Lit.dev) }
        order == [path |-> Sample.P_Order, content |-> Src.Order]
        readme == [path |-> Sample.P_readme, content |-> Src.Handler]
    IN  [ feedback |->
              {NoJson} \cup
              { [EmptyBody EXCEPT !.email = e, !.comment = c] :
                    e \in {Missing, Given(None), text(<<" ", " ">>),
                           text(<<" ">> \o Sample.O_owner \o <<" ">>)},
                    c \in {Missing, text(<<>>), text(<<" ", "\t">>),
                           text(Lit.high \o <<"\n">>)} },
          analyze |->
              {NoJson} \cup
              { [EmptyBody EXCEPT !.repo = r,
                                  !.files = text(<<order, readme>>)] :
                    r \in repos } \cup
              { [EmptyBody EXCEPT !.repo = text(Sample.O_owner \o Lit.slash),
                                  !.branch = text(Lit.dev), !.files = f] :
                    f \in {Missing, Given(None), text(<<>>), text(<<readme>>),
                           text(<<order>>)} },
          analyze_file |->
              {NoJson} \cup
              { [EmptyBody EXCEPT !.repo = r, !.path = text(Sample.P_Order),
                                  !.content = text(Src.Order)] :
                    r \in repos } \cup
              { [EmptyBody EXCEPT !.repo = text(Lit.slash \o Sample.O_repo),
                                  !.branch = text(Lit.dev), !.content = c] :
                    c \in {Missing, Given(None), text(<<>>), text(<< <<>> >>),
                           text(Src.Order)} },
          answers |->
              { Returned(<<>>),
                Returned(<<SampleIssue.place, SampleIssue.cancel>>),
                Raised(Msg.Permission) } ]

Respond(t, status, body) == [response EXCEPT ![t] = [status |-> status, body |-> body]]

(* A request is served on a thread of its own; the threads are alike, and  *)
(* the request takes the first that is free.                               *)
Receive(route, method, t, data) ==
    /\ thread_pc[t] = "idle"
    /\ \A u \in Threads : u < t => thread_pc[u] # "idle"
    /\ requests < MaxRequests
    /\ requests' = requests + 1
    /\ last_request' = [route |-> route, method |-> method, thread |-> t, data |-> data]

(* The BatchAnalyzer the handlers construct, lines 120 and 217.            *)
BatchAnalyzerOf(t, delay, info, enable_check) ==
    [thread |-> t, max_workers |-> 1, delay_between_files |-> delay,
     repo_info |-> info, enable_consistency_check |-> enable_check]

(* Lines 38-44.                                                            *)
health_check(t) ==
    /\ Receive("/health", "GET", t, EmptyBody)
    /\ response' = Respond(t, 200, <<>>)
    /\ UNCHANGED <<server_analysis_cache, _mongo_client, _feedback_collection,
                   clients, feedback, analyzers, pipeline_runs, thread_pc,
                   thread_doc, thread_collection>>

(* Lines 46-71: up to the call of get_feedback_collection.  created_at is  *)
(* left out of the document.                                               *)
submit_feedback(t, method, data) ==
    /\ Receive("/feedback", method, t, data)
    /\ IF method = "GET"
       THEN /\ response' = Respond(t, 200, <<>>)
            /\ UNCHANGED <<thread_pc, thread_doc>>
       ELSE IF ~data.json
       THEN /\ response' = Respond(t, 500, <<>>)
            /\ UNCHANGED <<thread_pc, thread_doc>>
       ELSE IF FeedbackFields(data).email = <<>> \/ FeedbackFields(data).comment = <<>>
       THEN /\ response' = Respond(t, 400, <<>>)
            /\ UNCHANGED <<thread_pc, thread_doc>>
       ELSE /\ thread_doc' = [thread_doc EXCEPT ![t] = FeedbackFields(data)]
            /\ thread_pc' = [thread_pc EXCEPT ![t] = "get_feedback_collection"]
            /\ response' = Respond(t, 0, <<>>)
    /\ UNCHANGED <<server_analysis_cache, _mongo_client, _feedback_collection,
                   clients, feedback, analyzers, pipeline_runs, thread_collection>>

(* Line 32: if _feedback_collection is None.  Line 36 when it is not.      *)
CheckCollection(t) ==
    /\ thread_pc[t] = "get_feedback_collection"
    /\ IF _feedback_collection = 0
       THEN /\ thread_pc' = [thread_pc EXCEPT ![t] = "MongoClient"]
            /\ UNCHANGED thread_collection
       ELSE /\ thread_pc' = [thread_pc EXCEPT ![t] = "insert_one"]
            /\ thread_collection' =
                   [thread_collection EXCEPT ![t] = _feedback_collection]
    /\ UNCHANGED <<server_analysis_cache, _mongo_client, _feedback_collection,
                   clients, feedback, analyzers, pipeline_runs, thread_doc,
                   response, requests, last_request>>

(* Line 33: _mongo_client = MongoClient(MONGO_URI).                        *)
ConstructClient(t) ==
    /\ thread_pc[t] = "MongoClient"
    /\ clients' = clients + 1
    /\ _mongo_client' = clients + 1
    /\ thread_pc' = [thread_pc EXCEPT ![t] = "collection"]
    /\ UNCHANGED <<server_analysis_cache, _feedback_collection, feedback,
                   analyzers, pipeline_runs, thread_doc, thread_collection,
                   response, requests, last_request>>

(* Lines 34-36: the collection of the client the global names now.         *)
BindCollection(t) ==
    /\ thread_pc[t] = "collection"
    /\ _feedback_collection' = _mongo_client
    /\ thread_collection' = [thread_collection EXCEPT ![t] = _mongo_client]
    /\ thread_pc' = [thread_pc EXCEPT ![t] = "insert_one"]
    /\ UNCHANGED <<server_analysis_cache, _mongo_client, clients, feedback,
                   analyzers, pipeline_runs, thread_doc, response, requests,
                   last_request>>

(* Lines 72-79.                                                            *)
InsertOne(t) ==
    /\ thread_pc[t] = "insert_one"
    /\ feedback' = Append(feedback, [doc |-> thread_doc[t],
                                     collection |-> thread_collection[t]])
    /\ response' = Respond(t, 200, <<>>)
    /\ thread_pc' = [thread_pc EXCEPT ![t] = "idle"]
    /\ UNCHANGED <<server_analysis_cache, _mongo_client, _feedback_collection,
                   clients, analyzers, pipeline_runs, thread_doc,
                   thread_collection, requests, last_request>>

(* Lines 72 and 81-87: insert_one raises, the server cannot be reached.    *)
InsertFails(t) ==
    /\ thread_pc[t] = "insert_one"
    /\ response' = Respond(t, 500, <<>>)
    /\ thread_pc' = [thread_pc EXCEPT ![t] = "idle"]
    /\ UNCHANGED <<server_analysis_cache, _mongo_client, _feedback_collection,
                   clients, feedback, analyzers, pipeline_runs, thread_doc,
                   thread_collection, requests, last_request>>

(* What analyze_repository of the analyzer returns for the files, lines    *)
(* 88-173 of batch_analyzer.py, when every analyze_single_file call has    *)
(* the outcome answer.                                                     *)
ServerResults(info, files, answer) ==
    LET javas == SelectSeq(files, IsJava)
    IN  [k \in 1..Len(javas) |->
            IF answer.raised
            THEN FallbackResult(javas[k].path,
                     _create_basic_issues(javas[k].content, javas[k].path),
                     answer.msg, info)
            ELSE FileResult(javas[k].path,
                     WithGithubUrls(info,
                         BackfillUrls(info, answer.val, javas[k].content,
                                      javas[k].path),
                         javas[k].path),
                     "success", "", <<>>, <<>>)]

(* Lines 89-152 of server.py, the handler of POST /analyze.                *)
server_analyze_repository(t, data, enable_check, answer) ==
    /\ Receive("/analyze", "POST", t, data)
    /\ IF ~data.json
       THEN /\ response' = Respond(t, 500, <<>>)
            /\ UNCHANGED <<analyzers, pipeline_runs, server_analysis_cache>>
       ELSE IF Falsy(Get(data, "files", Some(<<>>)))
       THEN /\ response' = Respond(t, 400, <<>>)
            /\ UNCHANGED <<analyzers, pipeline_runs, server_analysis_cache>>
       ELSE LET repo == Get(data, "repo", Some(Lit.unknown))
                branch == Get(data, "branch", Some(T.main))
                info == RepoInfoOf(repo, branch)
                all_results == ServerResults(info, Get(data, "files", Some(<<>>)).val,
                                             answer)
            IN  /\ analyzers' = Append(analyzers,
                                       BatchAnalyzerOf(t, 2, info, enable_check))
                /\ pipeline_runs' = pipeline_runs + 1
                /\ server_analysis_cache' =
                       Store(server_analysis_cache, repo, all_results)
                /\ response' = Respond(t, 200, all_results)
    /\ UNCHANGED <<_mongo_client, _feedback_collection, clients, feedback,
                   thread_pc, thread_doc, thread_collection>>

(* Lines 155-203 and the helper analyze_single_file of lines 205-234.      *)
analyze_file(t, data, enable_check, answer) ==
    /\ Receive("/analyze-file", "POST", t, data)
    /\ IF ~data.json
       THEN /\ response' = Respond(t, 500, <<>>)
            /\ UNCHANGED <<analyzers, pipeline_runs>>
       ELSE IF Falsy(Get(data, "content", None))
       THEN /\ response' = Respond(t, 400, <<>>)
            /\ UNCHANGED <<analyzers, pipeline_runs>>
       ELSE LET path == Get(data, "path", Some(Sample.P_unknown)).val
                code == Get(data, "content", None).val
                info == RepoInfoOf(Get(data, "repo", None),
                                   Get(data, "branch", Some(T.main)))
            IN  IF \A i \in 1..Len(code) : code[i] = <<>>
                THEN /\ response' = Respond(t, 200, <<>>)
                     /\ UNCHANGED <<analyzers, pipeline_runs>>
                ELSE /\ analyzers' = Append(analyzers,
                                        BatchAnalyzerOf(t, 0, info, enable_check))
                     /\ pipeline_runs' = pipeline_runs + 1
                     /\ response' = Respond(t, 200,
                            IF answer.raised
                            THEN create_fallback_issues(code, path, info)
                            ELSE BackfillUrls(info, answer.val, code, path))
    /\ UNCHANGED <<server_analysis_cache, _mongo_client, _feedback_collection,
                   clients, feedback, thread_pc, thread_doc, thread_collection>>

ServerFrame ==
    UNCHANGED <<config, analysis_cache, report_files, pc, calls, locals,
                history, batch_files, idx, results, file_sleeps, batch_pc,
                crew_module, tasks, executed, kickoff_pc,
                sample, issues_in, issues_out, applied_fn, fn_args, fn_out,
                workdir>>

(* app.run(threaded=True), lines 378-383: every request is served on a     *)
(* thread of its own, and the threads interleave.                          *)
NextServer ==
    \/ \E t \in Threads : health_check(t) /\ ServerFrame
    \/ \E t \in Threads : submit_feedback(t, "GET", EmptyBody) /\ ServerFrame
    \/ \E t \in Threads, data \in Requests.feedback :
          submit_feedback(t, "POST", data) /\ ServerFrame
    \/ \E t \in Threads : CheckCollection(t) /\ ServerFrame
    \/ \E t \in Threads : ConstructClient(t) /\ ServerFrame
    \/ \E t \in Threads : BindCollection(t) /\ ServerFrame
    \/ \E t \in Threads : InsertOne(t) /\ ServerFrame
    \/ \E t \in Threads : InsertFails(t) /\ ServerFrame
    \/ \E t \in Threads, data \in Requests.analyze, enable_check \in BOOLEAN,
          answer \in Requests.answers :
          server_analyze_repository(t, data, enable_check, answer) /\ ServerFrame
    \/ \E t \in Threads, data \in Requests.analyze_file, enable_check \in BOOLEAN,
          answer \in Requests.answers :
          analyze_file(t, data, enable_check, answer) /\ ServerFrame

(* The analyzer of the other specifications is not used here.              *)
InitServer == Init /\ max_retries = 1 /\ ~enable_consistency_check /\ ~repo_info.present

SpecServer == InitServer /\ [][NextServer]_vars

(***************************************************************************)
(* Two analyses in one working directory.  Each request constructs an      *)
(* analyzer of its own (server.py 120, 217), so the cache is not shared    *)
(* and every analysis is a miss; the analyzers make one attempt.           *)
(***************************************************************************)
(* Lines 227-230, in the order of the list.                                *)
StaleFiles ==
    <<"ranking_report.md", "localization_report.md", "prompt_report.md",
      "analysis_report.md", "issue_report.md", "planning_report.md">>

(* The file an analysis analyzes and the issue its pipeline finds.         *)
FileOfAnalysis(r) == IF r % 2 = 1 THEN 1 ELSE 2

IssueOfAnalysis(r) == IF r % 2 = 1 THEN SampleIssue.place ELSE SampleIssue.cancel

(* The pipeline answers with the array, or with prose after a localization *)
(* report that holds the array.                                            *)
OutputsOfAnalysis(r) ==
    { [raw |-> JsonArrayText(<<IssueOfAnalysis(r)>>), loc |-> ProseText],
      [raw |-> ProseText, loc |-> ProseWithArray(<<IssueOfAnalysis(r)>>)] }

(* The report files as analysis r finds them.                              *)
View(r) == [n \in ReportNameSet |-> directory[ReportSlot(r, n)]]

(* Lines 198-205 and 225: the analysis enters _run_single_analysis.        *)
BeginRun(r, out) ==
    /\ req_pc[r] = "idle"
    /\ req_pc' = [req_pc EXCEPT ![r] = "clean"]
    /\ req_step' = [req_step EXCEPT ![r] = 1]
    /\ req_out' = [req_out EXCEPT ![r] = out]
    /\ UNCHANGED <<directory, last_op, req_result, req_raw, req_ret>>

(* Lines 231-239, one round of the loop: the file is unlinked when it      *)
(* exists; an unlink that fails is passed over.                            *)
UnlinkStale(r) ==
    /\ req_pc[r] = "clean"
    /\ LET n == StaleFiles[req_step[r]]
       IN  IF View(r)[n].exists
           THEN /\ directory' = [directory EXCEPT ![ReportSlot(r, n)] = NoFile]
                /\ last_op' = [last_op EXCEPT ![n] = [op |-> "unlink", by |-> r]]
           ELSE UNCHANGED <<directory, last_op>>
    /\ IF req_step[r] = Len(StaleFiles)
       THEN /\ req_pc' = [req_pc EXCEPT ![r] = "kickoff"]
            /\ req_step' = [req_step EXCEPT ![r] = 1]
       ELSE /\ req_step' = [req_step EXCEPT ![r] = req_step[r] + 1]
            /\ UNCHANGED req_pc
    /\ UNCHANGED <<req_out, req_result, req_raw, req_ret>>

(* Line 260, crew.kickoff: the next stage completes and writes its         *)
(* output_file; the output of the last stage is result.raw.                *)
RunStage(r) ==
    /\ req_pc[r] = "kickoff"
    /\ LET n == ReportNames[req_step[r]]
       IN  /\ directory' =
                  [directory EXCEPT ![ReportSlot(r, n)] =
                      FileOf(<<r, 1>>, StageText(n, req_out[r].loc, req_out[r].raw))]
           /\ last_op' = [last_op EXCEPT ![n] = [op |-> "write", by |-> r]]
    /\ IF req_step[r] = Len(ReportNames)
       THEN /\ req_pc' = [req_pc EXCEPT ![r] = "parse"]
            /\ req_result' = [req_result EXCEPT ![r] = req_out[r].raw]
            /\ UNCHANGED req_step
       ELSE /\ req_step' = [req_step EXCEPT ![r] = req_step[r] + 1]
            /\ UNCHANGED <<req_pc, req_result>>
    /\ UNCHANGED <<req_out, req_raw, req_ret>>

(* Lines 294-330: a stage raises, the only attempt is spent and the        *)
(* heuristic issues are returned.                                          *)
StageRaises(r) ==
    /\ req_pc[r] = "kickoff"
    /\ req_pc' = [req_pc EXCEPT ![r] = "fell_back"]
    /\ req_ret' = [req_ret EXCEPT ![r] = BasicIssues[FileOfAnalysis(r)].val]
    /\ UNCHANGED <<directory, last_op, req_step, req_out, req_result, req_raw>>

(* Lines 266-292: the output is parsed, with the report files as they are  *)
(* now, an empty list is replaced by the heuristic issues, and the issues  *)
(* are filtered and returned.                                              *)
ParseOutput(r) ==
    /\ req_pc[r] = "parse"
    /\ LET f == InputFiles[FileOfAnalysis(r)]
           raw_issues == _parse_crew_output(req_result[r], View(r))
           substituted == SubstituteIfEmpty(raw_issues, BasicIssues[FileOfAnalysis(r)])
       IN  /\ req_raw' = [req_raw EXCEPT ![r] = raw_issues]
           /\ req_ret' = [req_ret EXCEPT ![r] =
                  _filter_and_validate_issues(substituted.val, f.content, f.path).val]
    /\ req_pc' = [req_pc EXCEPT ![r] = "returned"]
    /\ UNCHANGED <<directory, last_op, req_step, req_out, req_result>>

ConcurrentFrame ==
    UNCHANGED <<config, analysis_cache, report_files, pc, calls, locals,
                history, batch_files, idx, results, file_sleeps, batch_pc,
                crew_module, tasks, executed, kickoff_pc,
                sample, issues_in, issues_out, applied_fn, fn_args, fn_out,
                server>>

NextConcurrent ==
    \/ \E r \in Analyses :
          \E out \in OutputsOfAnalysis(r) : BeginRun(r, out) /\ ConcurrentFrame
    \/ \E r \in Analyses : UnlinkStale(r) /\ ConcurrentFrame
    \/ \E r \in Analyses : RunStage(r) /\ ConcurrentFrame
    \/ \E r \in Analyses : StageRaises(r) /\ ConcurrentFrame
    \/ \E r \in Analyses : ParseOutput(r) /\ ConcurrentFrame

InitConcurrent == Init /\ max_retries = 1 /\ ~enable_consistency_check /\ ~repo_info.present

SpecConcurrent == InitConcurrent /\ [][NextConcurrent]_vars

(***************************************************************************)
(* Properties.                                                             *)
(***************************************************************************)

(* _run_single_analysis has just returned: run_history is that of the run  *)
(* and RunResult is what it returned.                                      *)
RunReturned ==
    \/ pc = "pause"
    \/ pc = "compare"
    \/ (pc = "returned" /\ ~check_mode /\ ~cache_hit)

RunResult ==
    IF pc = "pause" THEN first_result
    ELSE IF pc = "compare" THEN second_result
    ELSE ret

WithoutUrls(issues) ==
    [k \in 1..Len(issues) |-> [issues[k] EXCEPT !.github_url = <<>>]]

(* The messages an attempt of the model can fail with, and those of them   *)
(* the two classifiers accept.                                             *)
Messages == {fail.msg : fail \in PipelineFailures} \cup {Msg.Attribute, Msg.Index}

RateLimitMessages == {m \in Messages : _is_rate_limit_error(m)}

TransportMessages == {m \in Messages : _is_llm_error(m)}

(* The run left by the fallback's return statement and returned what the   *)
(* heuristic generator makes of the file.                                  *)
ReturnedHeuristicIssues ==
    /\ outcome = "fallback"
    /\ ~_create_basic_issues(code_content, file_path).raised
    /\ WithoutUrls(RunResult) = _create_basic_issues(code_content, file_path).val

(* ---- C1 --------------------------------------------------------------- *)

(* C1 as the claim states it: the pipeline is invoked at most once for a   *)
(* file content, so one call, which has one content, invokes crew.kickoff  *)
(* at most once.                                                           *)
C1_KickoffAtMostOnce == kickoffs <= 1

C1_Returned ==
    pc = "returned" =>
        /\ cache_hit =>
              /\ kickoffs = 0
              /\ heuristic_calls = 0
              /\ filter_calls = 0
              /\ cache_writes = 0
              /\ cache_key \in DOMAIN analysis_cache
              /\ ret = analysis_cache[cache_key]
        /\ (~cache_hit /\ ~(~check_mode /\ outcome = "fallback_failed")) =>
              /\ cache_key \in DOMAIN analysis_cache
              /\ analysis_cache[cache_key] = ret
        /\ (~cache_hit /\ ~check_mode /\ outcome = "fallback_failed") =>
              /\ cache_key \notin DOMAIN analysis_cache
              /\ ret = <<>>

C1_CallStep ==
    /\ \A k \in DOMAIN analysis_cache :
          k # cache_key' =>
              k \in DOMAIN analysis_cache' /\ analysis_cache'[k] = analysis_cache[k]
    /\ (calls' = calls + 1 /\ cache_key' \in DOMAIN analysis_cache) =>
          /\ pc' = "returned"
          /\ cache_hit'
          /\ ret' = analysis_cache[cache_key']
          /\ analysis_cache' = analysis_cache
          /\ report_files' = Stale(report_files)

(* C1 (amended): a call whose content key is in the cache returns the      *)
(* cached list at once, with no pipeline run, no heuristic generation, no  *)
(* filtering and no cache write, and no call changes the entry of another  *)
(* content; a call that misses leaves the list it returns in the cache     *)
(* under the content key, except that a call without consistency check     *)
(* whose heuristic fallback raised returns the empty list and caches       *)
(* nothing, so that the next call with that content runs the pipeline      *)
(* again.                                                                  *)
C1_CacheHitReturnsCachedList == []C1_Returned /\ [][C1_CallStep]_vars

(* A second call is answered from the cache with a non-empty list.         *)
C1_Witness ==
    /\ pc = "returned"
    /\ calls = 2
    /\ cache_hit
    /\ ret # <<>>

(* ---- C2 --------------------------------------------------------------- *)

AllRateLimited ==
    /\ Len(errors) = max_retries
    /\ \A k \in 1..Len(errors) : errors[k] \in RateLimitMessages

(* C2: when every attempt of a run raises a rate-limit error, the run      *)
(* sleeps 60 seconds after each of the attempts 1..max_retries-1 and not   *)
(* after the last one, and then returns the heuristic generator's issues   *)
(* (the empty list when the generator raises).                             *)
C2_RateLimitWaits ==
    (RunReturned /\ AllRateLimited) =>
        /\ run_sleeps = [k \in 1..(max_retries - 1) |-> 60]
        /\ attempt = max_retries
        /\ \/ ReturnedHeuristicIssues
           \/ /\ outcome = "fallback_failed"
              /\ _create_basic_issues(code_content, file_path).raised
              /\ RunResult = <<>>

(* Three rate-limited attempts, the first one naming a transport keyword   *)
(* too, and the heuristic issues returned.                                 *)
C2_Witness ==
    /\ RunReturned
    /\ AllRateLimited
    /\ max_retries = 3
    /\ errors[1] = Msg.RateLimit
    /\ errors[3] = Msg.Quota
    /\ run_sleeps = <<60, 60>>
    /\ RunResult # <<>>

(* ---- C3 --------------------------------------------------------------- *)

TransportOnly(error_msg) ==
    error_msg \in TransportMessages \ RateLimitMessages

(* C3: the wait after an attempt k < max_retries that raised a transport   *)
(* error naming no rate limit is retry_backoff^(k-1) seconds: 1, 2, 4 with *)
(* base 2.                                                                 *)
C3_BackoffWaits ==
    \A k \in 1..Len(errors) :
        (TransportOnly(errors[k]) /\ k < max_retries
            /\ (k < Len(errors) \/ pc # "except")) =>
            /\ Len(run_sleeps) >= k
            /\ run_sleeps[k] = retry_backoff ^ (k - 1)
            /\ retry_backoff = 2 => run_sleeps[k] = <<1, 2, 4, 8>>[k]

(* Two timeouts in a row with base 3: waits of 1 and 3 seconds.            *)
C3_Witness ==
    /\ retry_backoff = 3
    /\ Len(errors) >= 2
    /\ errors[1] = Msg.Timeout
    /\ errors[2] = Msg.Timeout
    /\ run_sleeps = <<1, 3>>

(* ---- C4 --------------------------------------------------------------- *)

Unrecognised(error_msg) ==
    error_msg \in Messages \ (RateLimitMessages \cup TransportMessages)

(* The messages of the model that name neither a rate limit nor a         *)
(* transport problem.                                                      *)
UnrecognisedMessages == {Msg.Validation, Msg.Attribute, Msg.Index}

(* C4: an error that matches neither keyword list is the last error of the *)
(* run: no attempt and no sleep follows it, whatever max_retries is, and   *)
(* the run goes on to the heuristic fallback.                              *)
C4_UnrecognisedErrorEndsRetries ==
    \A k \in 1..Len(errors) :
        /\ errors[k] \in Messages
        /\ errors[k] \in UnrecognisedMessages <=> Unrecognised(errors[k])
        /\ Unrecognised(errors[k]) =>
               /\ k = Len(errors)
               /\ attempt = k
               /\ Len(run_sleeps) = k - 1
               /\ run_kickoffs <= k
               /\ pc \notin {"attempt", "parse"}
               /\ outcome \in {"none", "fallback", "fallback_failed"}
               /\ RunReturned => outcome # "none"

(* A configuration error at the first of three attempts: the fallback is   *)
(* reached with no sleep and both remaining attempts unused.               *)
C4_Witness ==
    /\ pc = "fallback"
    /\ max_retries = 3
    /\ errors = <<Msg.Validation>>
    /\ attempt = 1
    /\ run_sleeps = <<>>

(* ---- C5 --------------------------------------------------------------- *)

StepsLeftInRun ==
    IF pc = "clean" THEN 5 * max_retries
    ELSE 5 * (max_retries - attempt)
           + (IF pc = "attempt" THEN 4
              ELSE IF pc = "parse" THEN 3
              ELSE IF pc = "except" THEN 2
              ELSE 1)

StepsLeft ==
    IF pc \in {"idle", "returned", "raised"} THEN 0
    ELSE IF pc = "compare" THEN 1
    ELSE IF pc = "pause" THEN 5 * max_retries + 3
    ELSE StepsLeftInRun + 1
           + (IF ~check_mode THEN 0
              ELSE IF run = 2 THEN 1
              ELSE 5 * max_retries + 4)

C6_Bounds ==
    /\ attempt <= max_retries
    /\ run_kickoffs <= max_retries
    /\ Len(run_sleeps) <= max_retries - 1
    /\ kickoffs <= (IF check_mode THEN 2 * max_retries ELSE max_retries)
    /\ Len(pauses) <= 1
    /\ StepsLeft >= 0

(* C6: every call terminates.  A run invokes crew.kickoff at most          *)
(* max_retries times and sleeps at most max_retries - 1 times, a call with *)
(* consistency check invokes crew.kickoff at most 2 * max_retries times,   *)
(* and every step of a call brings it nearer to its return: the number of *)
(* steps it has left decreases.                                            *)
C6_CallTerminates ==
    []C6_Bounds /\ [][calls' = calls => StepsLeft' < StepsLeft]_vars

(* A consistency check that used all of its 2 * 3 pipeline runs.           *)
C6_Witness ==
    /\ pc = "returned"
    /\ check_mode
    /\ max_retries = 3
    /\ kickoffs = 6
    /\ Len(run_sleeps) = 2

(* ---- C7 --------------------------------------------------------------- *)

(* C7: with consistency check the call makes two runs, with one pause      *)
(* between them, and returns and caches the second run's list when it is   *)
(* strictly longer than the first run's and the first run's otherwise;     *)
(* without it the call makes one run.                                      *)
C7_ConsistencyCheckKeepsLarger ==
    (pc = "returned" /\ ~cache_hit) =>
        /\ check_mode = enable_consistency_check
        /\ ~check_mode => run = 1 /\ pauses = <<>>
        /\ check_mode =>
              /\ run = 2
              /\ pauses = <<2>>
              /\ ret = IF Len(second_result) > Len(first_result)
                       THEN second_result ELSE first_result
              /\ cache_key \in DOMAIN analysis_cache
              /\ analysis_cache[cache_key] = ret

(* Two runs with different lists of the same length: the first is kept.    *)
C7_Witness ==
    /\ pc = "returned"
    /\ check_mode
    /\ Len(first_result) = Len(second_result)
    /\ first_result # second_result
    /\ ret = first_result
    /\ analysis_cache[cache_key] = first_result

(* ---- C8 --------------------------------------------------------------- *)

InRun == pc \in {"attempt", "parse", "except", "fallback"}

SubstitutedIssues ==
    _filter_and_validate_issues(_create_basic_issues(code_content, file_path).val,
                                code_content, file_path).val

C10_ReturnedListsAreFiltered ==
    (pc = "returned" /\ ~cache_hit) =>
        /\ _filter_and_validate_issues(ret, code_content, file_path).val = ret
        /\ cache_key \in DOMAIN analysis_cache =>
              _filter_and_validate_issues(analysis_cache[cache_key],
                                          code_content, file_path).val
                  = analysis_cache[cache_key]

(* ---- C11 -------------------------------------------------------------- *)

(* C11: every issue of the list a call returns, and of the list the cache  *)
(* holds for the call's content, carries a rank.                           *)
C11_RankAlwaysPresent ==
    pc = "returned" =>
        /\ \A k \in 1..Len(ret) : ret[k].rank # Absent
        /\ cache_key \in DOMAIN analysis_cache =>
              \A k \in 1..Len(analysis_cache[cache_key]) :
                  analysis_cache[cache_key][k].rank # Absent

(* ---- C12 -------------------------------------------------------------- *)

(* The paths of the files argument that end in .java, in input order.      *)
JavaPathsOf(fs) ==
    LET ends(p) == /\ Len(p) >= 5
                   /\ SubSeq(p, Len(p) - 4, Len(p)) = <<".", "j", "a", "v", "a">>
        kept == SelectSeq(fs, LAMBDA f : ends(f.path))
    IN  [k \in 1..Len(kept) |-> kept[k].path]

(* C12: analyze_repository returns one FileResult for each file whose path *)
(* ends in .java and none for another file, in input order (the empty list *)
(* when no path ends in .java); the files are analyzed one at a time in    *)
(* that order: the call for file idx is made when idx - 1 results are      *)
(* recorded, and no call is in progress outside the loop body.             *)
C12_OneResultPerJavaFileInOrder ==
    /\ batch_pc = "done" =>
          /\ [k \in 1..Len(results) |-> results[k].file] = JavaPathsOf(batch_files)
          /\ JavaPathsOf(batch_files) = <<>> => (results = <<>> /\ calls = 0)
    /\ batch_pc \in {"next", "call"} =>
          /\ idx \in 1..Len(JavaPathsOf(batch_files))
          /\ [k \in 1..Len(results) |-> results[k].file]
                 = SubSeq(JavaPathsOf(batch_files), 1, idx - 1)
    /\ pc # "idle" =>
          /\ batch_pc = "call"
          /\ calls = idx
          /\ file_path = JavaPathsOf(batch_files)[idx]
    /\ pc = "idle" =>
          calls = IF batch_pc = "idle" THEN 0 ELSE idx - 1

(* Two Java files around a file that is none: two results, in input order. *)
C12_Witness ==
    /\ batch_pc = "done"
    /\ Len(batch_files) = 3
    /\ batch_files[1].path = Sample.P_Handler
    /\ batch_files[2].path = Sample.P_readme
    /\ batch_files[3].path = Sample.P_Order
    /\ Len(results) = 2
    /\ results[1].file = Sample.P_Handler
    /\ results[2].file = Sample.P_Order

(* ---- C13 -------------------------------------------------------------- *)

C13_Results ==
    /\ batch_pc \in {"idle", "next", "call", "done"}
    /\ batch_pc = "done" => Len(results) = Len(JavaPathsOf(batch_files))
    /\ \A k \in 1..Len(results) :
          /\ results[k].status \in {"success", "error"}
          /\ results[k].method \in {"", "fallback_heuristic"}
          /\ results[k].status = "error" =>
                /\ results[k].issues = <<>>
                /\ results[k].method = ""
                /\ results[k].error # <<>>
                /\ results[k].fallback_error # <<>>
          /\ results[k].status = "success" =>
                /\ results[k].error = <<>>
                /\ results[k].fallback_error = <<>>

C13_Step ==
    /\ (pc = "raised" /\ batch_pc = "call") =>
          /\ Len(results') = Len(results) + 1
          /\ LET r == results'[Len(results')]
                 generated == _create_basic_issues(code_content, file_path)
             IN  /\ r.file = file_path
                 /\ ~generated.raised =>
                       /\ r.status = "success"
                       /\ r.method = "fallback_heuristic"
                       /\ WithoutUrls(r.issues) = generated.val
                 /\ generated.raised =>
                       /\ r.status = "error"
                       /\ r.issues = <<>>
                       /\ r.error = last_error
                       /\ r.fallback_error = generated.msg
          /\ batch_pc' = IF idx < Len(java_files) THEN "next" ELSE "done"
    /\ (pc = "returned" /\ batch_pc = "call") =>
          /\ Len(results') = Len(results) + 1
          /\ results'[Len(results')].status = "success"
          /\ results'[Len(results')].method = ""
    /\ \A k \in 1..Len(results) :
          batch_pc # "idle" =>
              /\ Len(results') >= k
              /\ results'[k].file = results[k].file
              /\ results'[k].status = results[k].status
              /\ results'[k].method = results[k].method

(* C13: when analyze_single_file raises for a file, the file's result is   *)
(* a success with method fallback_heuristic and the heuristic issues, or,  *)
(* when the heuristic generator raises too, an error with no issues and    *)
(* both messages; every result has status success or error; the loop goes  *)
(* on to the next file after a failure, and every Java file has a result   *)
(* when analyze_repository returns.                                        *)
C13_FailureYieldsFallbackOrError == []C13_Results /\ [][C13_Step]_vars

(* The first file failed at both levels, the second one got heuristic      *)
(* issues after its analysis raised.                                       *)
C13_Witness ==
    /\ batch_pc = "done"
    /\ Len(results) = 2
    /\ results[1].status = "error"
    /\ results[1].error = Msg.Permission
    /\ results[1].fallback_error = Msg.Index
    /\ results[2].status = "success"
    /\ results[2].method = "fallback_heuristic"
    /\ results[2].issues # <<>>

(* ---- C14 -------------------------------------------------------------- *)

(* C14: a batch of n Java files sleeps n - 1 times between files, each     *)
(* time delay_between_files seconds: never before the first file, once     *)
(* before the call for each later file, a cache hit or not, and at no      *)
(* other place.                                                            *)
C14_SleepsBetweenFiles ==
    /\ \A k \in 1..Len(file_sleeps) : file_sleeps[k] = delay_between_files
    /\ batch_pc = "idle" => file_sleeps = <<>>
    /\ batch_pc = "next" =>
          Len(file_sleeps) = (IF idx = 1 THEN 0 ELSE idx - 2)
    /\ batch_pc = "call" => Len(file_sleeps) = idx - 1
    /\ batch_pc = "done" =>
          Len(file_sleeps) =
              (IF JavaPathsOf(batch_files) = <<>> THEN 0
               ELSE Len(JavaPathsOf(batch_files)) - 1)
    /\ pc # "idle" => (batch_pc = "call" /\ Len(file_sleeps) = calls - 1)

(* The second of two files was answered from the cache, after one sleep.   *)
C14_Witness ==
    /\ batch_pc = "done"
    /\ Len(results) = 2
    /\ cache_hit
    /\ results[2].issues # <<>>
    /\ file_sleeps = <<2>>

(* ---- C15 -------------------------------------------------------------- *)

FiveStages ==
    <<"design_issue_identification_task", "code_analysis_task",
      "prompt_engineering_task", "design_issue_localization_task",
      "ranking_task">>

(* C15: the tasks a pipeline run has executed are the first ones of        *)
(* identification, code analysis, prompt engineering, localization and     *)
(* ranking, in that order, all five when the run returns; the planning     *)
(* task is never executed and planning_report.md is never written.         *)
C15_FiveStagesNoPlanning ==
    /\ Len(executed) <= Len(FiveStages)
    /\ executed = SubSeq(FiveStages, 1, Len(executed))
    /\ kickoff_pc = "returned" => executed = FiveStages
    /\ ~report_files["planning_report.md"].exists

(* ---- The drop rules of the filter, as C16, C17 and C18 state them ------ *)

FilterApplied == applied_fn = "_filter_and_validate_issues"

SampleCode == FunctionSamples[sample].content

SamplePath == FunctionSamples[sample].path

Mentions(text, phrase) == Contains(Lower(text), phrase)

(* A name with a get, set or is prefix and something after it, that holds  *)
(* no business-logic keyword.                                              *)
AccessorClassified(name) ==
    LET low == Lower(name)
    IN  /\ name # <<"N", "/", "A">>
        /\ \/ Len(name) > 3 /\ SubSeq(low, 1, 3) \in {<<"g", "e", "t">>, <<"s", "e", "t">>}
           \/ Len(name) > 2 /\ SubSeq(low, 1, 2) = <<"i", "s">>
        /\ \A k \in 1..Len(business_logic_keywords) :
              ~Contains(low, business_logic_keywords[k])

HidingOnAccessor(issue) ==
    /\ AccessorClassified(issue.fn)
    /\ \/ Mentions(issue.rtype, Lit.information_hiding)
       \/ Mentions(issue.rationale, Lit.information_hiding)

(* The names a line of the source declares with class, interface or enum:  *)
(* the first such declaration of the line.                                 *)
DeclaredNames(code) ==
    LET declares(n, i) ==
            /\ i + 1 <= Len(code[n])
            /\ code[n][i] \in {T.class, T.interface, T.enum}
            /\ WordPrefix(code[n][i + 1]) # <<>>
    IN  UNION { { WordPrefix(code[n][i + 1]) :
                    i \in {j \in 1..Len(code[n]) :
                             declares(n, j) /\ \A h \in 1..(j - 1) : ~declares(n, h)} } :
                n \in 1..Len(code) }

UndeclaredClass(issue, code) ==
    issue.cls # <<>> /\ issue.cls \notin DeclaredNames(code)

(* The class name is no token of the source at all.                        *)
UnmentionedClass(issue, code) ==
    /\ issue.cls # <<>>
    /\ ~\E n \in 1..Len(code) : \E i \in 1..Len(code[n]) : code[n][i] = issue.cls

(* The lines that declare a method (modifier, type word, name, "(") and    *)
(* those among them whose method is accessor-classified: at least          *)
(* num / den of the declared methods are, and there is one at least.       *)
AccessorShareAtLeast(code, num, den) ==
    LET at(n, i) ==
            /\ i + 3 <= Len(code[n])
            /\ code[n][i] \in {T.public, T.private, T.protected}
            /\ IsWord(code[n][i + 1])
            /\ IsWord(code[n][i + 2])
            /\ code[n][i + 3] = <<"(">>
        firsts == {p \in (1..Len(code)) \X (1..MaxLineLen(code)) :
                     at(p[1], p[2]) /\ \A h \in 1..(p[2] - 1) : ~at(p[1], h)}
        accessors == {p \in firsts : AccessorClassified(code[p[1]][p[2] + 2])}
    IN  /\ firsts # {}
        /\ den * Cardinality(accessors) >= num * Cardinality(firsts)

PathNamesModel(path) ==
    \E k \in 1..Len(model_path_keywords) :
        Contains(Lower(path), model_path_keywords[k])

GodClassOnModel(issue, is_model) ==
    is_model /\ Mentions(issue.rationale, Lit.god_class)

EnvyOnOwnFields(issue) ==
    /\ \/ Mentions(issue.rtype, Lit.feature_envy)
       \/ Mentions(issue.rationale, Lit.feature_envy)
    /\ \E k \in 1..Len(own_field_phrases) :
          Contains(Lower(issue.rationale), own_field_phrases[k])

PublicFieldsOnAccessor(issue) ==
    /\ Mentions(issue.rationale, Lit.exposes_public_fields)
    /\ AccessorClassified(issue.fn)

(* The file is a model class, as the code decides it.                      *)
SampleIsModel ==
    PathNamesModel(SamplePath) \/ AccessorShareAtLeast(SampleCode, 4, 5)

(* ---- C16 -------------------------------------------------------------- *)

(* C16: when no other drop rule applies to the issues passed in, the       *)
(* filter returns them without those that mention information hiding (in   *)
(* type or rationale) on an accessor-classified function name, and a name  *)
(* with a business-logic keyword is not accessor-classified whatever its   *)
(* prefix: getName is dropped and getGreeting is retained.                 *)
C16_HidingDroppedOnAccessorsOnly ==
    (/\ FilterApplied
     /\ \A k \in 1..Len(issues_in) :
           /\ ~UndeclaredClass(issues_in[k], SampleCode)
           /\ ~GodClassOnModel(issues_in[k], SampleIsModel)
           /\ ~EnvyOnOwnFields(issues_in[k])
           /\ ~PublicFieldsOnAccessor(issues_in[k]))
    => /\ ~issues_out.raised
       /\ issues_out.val =
              SelectSeq(issues_in, LAMBDA issue : ~HidingOnAccessor(issue))
       /\ \A k \in 1..Len(issues_in) :
              /\ issues_in[k].fn = Sample.N_getGreeting =>
                    \E j \in 1..Len(issues_out.val) : issues_out.val[j] = issues_in[k]
              /\ (issues_in[k].fn = Sample.N_getName
                     /\ issues_in[k].rtype = Lit.information_hiding) =>
                    \A j \in 1..Len(issues_out.val) : issues_out.val[j] # issues_in[k]

(* The getName issue was dropped and the getGreeting issue was retained.   *)
C16_Witness ==
    /\ FilterApplied
    /\ SampleCode = Src.Order
    /\ SamplePath = Sample.P_Order
    /\ Len(issues_in) = 2
    /\ issues_in[1] = SampleIssue.getName
    /\ issues_in[2].fn = Sample.N_getGreeting
    /\ HidingOnAccessor(issues_in[1])
    /\ Mentions(issues_in[2].rtype, Lit.information_hiding)
    /\ issues_out.val = <<issues_in[2]>>

(* ---- C17 -------------------------------------------------------------- *)

(* C17 as stated: a file is a model class exactly when it declares a       *)
(* method and at least 95% of its declared methods are accessor-           *)
(* classified, whatever its path; with no other drop rule applying, the    *)
(* filter returns the issues without those that mention god class in the   *)
(* rationale on a model class.                                             *)
C17_ModelClassFromShare95 ==
    (/\ FilterApplied
     /\ \A k \in 1..Len(issues_in) :
           /\ ~HidingOnAccessor(issues_in[k])
           /\ ~UndeclaredClass(issues_in[k], SampleCode)
           /\ ~EnvyOnOwnFields(issues_in[k])
           /\ ~PublicFieldsOnAccessor(issues_in[k]))
    => /\ ~issues_out.raised
       /\ issues_out.val =
              SelectSeq(issues_in, LAMBDA issue :
                  ~GodClassOnModel(issue, AccessorShareAtLeast(SampleCode, 19, 20)))

(* C17 amended: a file is a model class exactly when its path contains     *)
(* model, entity, dto, domain or pojo, or it declares a method and at      *)
(* least 80% of its declared methods are accessor-classified; with no      *)
(* other drop rule applying, the filter returns the issues without those   *)
(* that mention god class in the rationale on a model class.               *)
C17_ModelClassFromPathOrShare80 ==
    (/\ FilterApplied
     /\ \A k \in 1..Len(issues_in) :
           /\ ~HidingOnAccessor(issues_in[k])
           /\ ~UndeclaredClass(issues_in[k], SampleCode)
           /\ ~EnvyOnOwnFields(issues_in[k])
           /\ ~PublicFieldsOnAccessor(issues_in[k]))
    => /\ ~issues_out.raised
       /\ issues_out.val =
              SelectSeq(issues_in, LAMBDA issue :
                  ~GodClassOnModel(issue, SampleIsModel))

(* Four accessors among five methods: the god-class issue was dropped and  *)
(* the other issue was retained.                                           *)
C17_Witness ==
    /\ FilterApplied
    /\ AccessorShareAtLeast(SampleCode, 4, 5)
    /\ ~AccessorShareAtLeast(SampleCode, 19, 20)
    /\ ~PathNamesModel(SamplePath)
    /\ Len(issues_in) = 2
    /\ Mentions(issues_in[1].rationale, Lit.god_class)
    /\ ~Mentions(issues_in[2].rationale, Lit.god_class)
    /\ issues_out.val = <<issues_in[2]>>

(* ---- C18 -------------------------------------------------------------- *)

(* C18 as stated: with no other drop rule applying, the filter returns the *)
(* issues without those whose class name is not empty and is no token of   *)
(* the source; a class name the source mentions is retained.               *)
C18_DroppedWhenUnmentioned ==
    (/\ FilterApplied
     /\ \A k \in 1..Len(issues_in) :
           /\ ~HidingOnAccessor(issues_in[k])
           /\ ~GodClassOnModel(issues_in[k], SampleIsModel)
           /\ ~EnvyOnOwnFields(issues_in[k])
           /\ ~PublicFieldsOnAccessor(issues_in[k]))
    => /\ ~issues_out.raised
       /\ issues_out.val =
              SelectSeq(issues_in, LAMBDA issue :
                  ~UnmentionedClass(issue, SampleCode))

(* C18 amended: with no other drop rule applying, the filter returns the   *)
(* issues without those whose class name is not empty and is not declared  *)
(* in the source by class, interface or enum; a class name the source      *)
(* only refers to is dropped.                                              *)
C18_DroppedWhenUndeclared ==
    (/\ FilterApplied
     /\ \A k \in 1..Len(issues_in) :
           /\ ~HidingOnAccessor(issues_in[k])
           /\ ~GodClassOnModel(issues_in[k], SampleIsModel)
           /\ ~EnvyOnOwnFields(issues_in[k])
           /\ ~PublicFieldsOnAccessor(issues_in[k]))
    => /\ ~issues_out.raised
       /\ issues_out.val =
              SelectSeq(issues_in, LAMBDA issue :
                  ~UndeclaredClass(issue, SampleCode))

(* The source has a field of type OrderLogic and declares Order: the       *)
(* OrderLogic issue was dropped and the Order issue was retained.          *)
C18_Witness ==
    /\ FilterApplied
    /\ ~UnmentionedClass(SampleIssue.logic, SampleCode)
    /\ UndeclaredClass(SampleIssue.logic, SampleCode)
    /\ ~UndeclaredClass(SampleIssue.place, SampleCode)
    /\ issues_in = <<SampleIssue.logic, SampleIssue.place>>
    /\ issues_out.val = <<SampleIssue.place>>

(* ---- The heuristic generator, as C19 and C20 state it ------------------ *)

GeneratorApplied == applied_fn = "_create_basic_issues" /\ ~issues_out.raised

(* A line with "public " , "(" and "{" in it.                              *)
OpensTracking(line) ==
    /\ \E i \in 1..(Len(line) - 1) :
          Len(line[i]) >= 6
              /\ SubSeq(line[i], Len(line[i]) - 5, Len(line[i]))
                     = <<"p", "u", "b", "l", "i", "c">>
    /\ \E i \in 1..Len(line) : Contains(line[i], <<"(">>)
    /\ \E i \in 1..Len(line) : Contains(line[i], <<"{">>)

HasClosingBrace(line) == \E i \in 1..Len(line) : Contains(line[i], <<"}">>)

(* The tracked methods <<opening line, closing line>>: the closing line is *)
(* the next line with "}" after the opening line, and no other opening     *)
(* line comes before it.  The counted lines are those after the opening    *)
(* line up to the closing line.                                            *)
TrackedMethods(code) ==
    {p \in (1..Len(code)) \X (1..Len(code)) :
        /\ p[1] < p[2]
        /\ OpensTracking(code[p[1]])
        /\ HasClosingBrace(code[p[2]])
        /\ ~OpensTracking(code[p[2]])
        /\ \A h \in (p[1] + 1)..(p[2] - 1) :
              ~OpensTracking(code[h]) /\ ~HasClosingBrace(code[h])}

MethodsLongerThan(code, limit) ==
    {p \in TrackedMethods(code) : p[2] - p[1] > limit}

ExtractMethodIssues ==
    SelectSeq(issues_out.val, LAMBDA issue : issue.rtype = Lit.extract_method)

OneIssuePerMethodLongerThan(limit) ==
    /\ Len(ExtractMethodIssues)
           = Cardinality(MethodsLongerThan(SampleCode, limit))
    /\ \A k \in 1..Len(ExtractMethodIssues) :
          /\ ExtractMethodIssues[k].severity = Lit.medium
          /\ \E p \in MethodsLongerThan(SampleCode, limit) :
                ExtractMethodIssues[k].line = p[1]
    /\ \A p \in MethodsLongerThan(SampleCode, limit) :
          Cardinality({k \in 1..Len(ExtractMethodIssues) :
                          ExtractMethodIssues[k].line = p[1]}) = 1

(* ---- C19 -------------------------------------------------------------- *)

BusinessMethodCount(code) ==
    LET ts == Flatten(code)
        tok(k) == IF k \in 1..Len(ts) THEN ts[k] ELSE <<>>
        nameAt(i) == IF tok(i + 1) = T.static THEN i + 3 ELSE i + 2
        declares(i) ==
            /\ tok(i) \in {T.public, T.private, T.protected}
            /\ IsTypeToken(tok(nameAt(i) - 1))
            /\ IsWord(tok(nameAt(i)))
            /\ tok(nameAt(i) + 1) = <<"(">>
        prefixed(m) ==
            \/ Len(m) > 3 /\ SubSeq(m, 1, 3) \in {<<"g", "e", "t">>, <<"s", "e", "t">>}
            \/ Len(m) > 2 /\ Lower(SubSeq(m, 1, 2)) = <<"i", "s">>
    IN  Cardinality({i \in 1..Len(ts) : declares(i) /\ ~prefixed(tok(nameAt(i)))})

GodClassIssuesOut ==
    SelectSeq(issues_out.val,
              LAMBDA issue : issue.rtype = Lit.extract_class /\ issue.severity = Lit.high)

GodClassIssueIffMoreThan(limit) ==
    IF BusinessMethodCount(SampleCode) > limit
    THEN Len(GodClassIssuesOut) = 1 /\ GodClassIssuesOut[1].line = 1
    ELSE GodClassIssuesOut = <<>>

UrlApplied == applied_fn = "_generate_github_url"

(* The decimal numeral of a natural number.                                *)
RECURSIVE Decimal(_)
Decimal(n) ==
    LET last == <<DigitChars[(n % 10) + 1]>>
    IN  IF n \div 10 = 0 THEN last ELSE Decimal(n \div 10) \o last

BlobUrl(owner, repo, branch, path) ==
    <<"h","t","t","p","s",":","/","/","g","i","t","h","u","b",".","c","o","m","/">>
        \o owner \o <<"/">> \o repo \o <<"/","b","l","o","b","/">>
        \o branch \o <<"/">> \o path

C21_GithubUrlShape ==
    UrlApplied =>
        LET info == fn_args.info
            line == fn_args.line_number
            file == BlobUrl(info.owner, info.repo, info.branch, fn_args.file_path)
        IN  IF ~info.present \/ info.owner = <<>> \/ info.repo = <<>>
            THEN fn_out = <<>>
            ELSE IF line # Absent /\ line # 0
                 THEN fn_out = file \o <<"#", "L">> \o Decimal(line)
                 ELSE fn_out = file

(* A URL that ends with a three-digit anchor.                              *)
C21_Witness ==
    /\ UrlApplied
    /\ fn_args.info.present
    /\ fn_args.line_number = 120
    /\ Len(fn_out) > 4
    /\ SubSeq(fn_out, Len(fn_out) - 4, Len(fn_out)) = <<"#", "L", "1", "2", "0">>

(***************************************************************************)
(* C27.  _parse_crew_output returns the array the text of the final stage  *)
(* yields, by json.loads of the text or by the pattern, whenever the text  *)
(* is not empty, blank or None and yields a non-empty array; otherwise it  *)
(* returns the array of ranking_report.md when that file exists and holds  *)
(* a non-empty array, else that of localization_report.md, else the empty  *)
(* list.  Issues read from a file get their position as rank when they     *)
(* have none.                                                              *)
(***************************************************************************)
ParseApplied == applied_fn = "_parse_crew_output"

DirectArray(text) ==
    IF text.shape = "text" /\ text.loads_ok /\ text.is_list THEN text.items ELSE <<>>

PatternArray(text) ==
    IF text.has_match /\ text.match_ok THEN text.match_items ELSE <<>>

ArrayOfText(text) ==
    IF text.shape # "text" THEN <<>>
    ELSE IF DirectArray(text) # <<>> THEN DirectArray(text)
    ELSE PatternArray(text)

ArrayOfFile(file) == IF file.exists THEN PatternArray(file.text) ELSE <<>>

Ranked(issues) ==
    [i \in 1..Len(issues) |->
        IF issues[i].isdict /\ issues[i].rank = Absent
        THEN [issues[i] EXCEPT !.rank = i] ELSE issues[i]]

C27_TextBeforeRankingBeforeLocalization ==
    ParseApplied =>
        LET text == fn_args.result
            ranking == fn_args.files["ranking_report.md"]
            localization == fn_args.files["localization_report.md"]
        IN  IF ArrayOfText(text) # <<>> THEN fn_out = ArrayOfText(text)
            ELSE IF ArrayOfFile(ranking) # <<>> THEN fn_out = Ranked(ArrayOfFile(ranking))
            ELSE IF ArrayOfFile(localization) # <<>>
                 THEN fn_out = Ranked(ArrayOfFile(localization))
            ELSE fn_out = <<>>

(***************************************************************************)
(* C28.  An attempt that is not the last and fails with a message both     *)
(* classifiers accept is handled as a rate-limit error: the run sleeps the *)
(* fixed 60 seconds, not retry_backoff^(attempt-1), and goes on with the   *)
(* next attempt, so that the retry uses up one of the max_retries          *)
(* attempts (a run never invokes the pipeline more than max_retries        *)
(* times).                                                                 *)
(***************************************************************************)
MatchesBoth(error_msg) ==
    /\ \E k \in 1..Len(rate_limit_keywords) :
          Contains(Lower(error_msg), rate_limit_keywords[k])
    /\ \E k \in 1..Len(llm_error_keywords) :
          Contains(Lower(error_msg), llm_error_keywords[k])

BothMessages == {m \in Messages : MatchesBoth(m)}

C28_Step ==
    (pc = "except" /\ pc' # "except" /\ last_error \in BothMessages
        /\ attempt < max_retries) =>
        /\ pc' = "attempt"
        /\ run_sleeps' = Append(run_sleeps, 60)
        /\ 60 # retry_backoff ^ (attempt - 1)
        /\ attempt' = attempt + 1
        /\ run_kickoffs' = run_kickoffs

C28_BothSignaturesWaitSixty ==
    [][C28_Step]_vars /\ [](run_kickoffs <= max_retries /\ attempt <= max_retries)

(* The second attempt is about to start 60 seconds after a first one that  *)
(* failed with "Rate limit exceeded".                                      *)
C28_Witness ==
    /\ pc = "attempt"
    /\ attempt = 2
    /\ errors = <<Msg.RateLimit>>
    /\ Msg.RateLimit \in BothMessages
    /\ run_sleeps = <<60>>
    /\ run_kickoffs = 1

(***************************************************************************)
(* C26.  With the consistency check enabled, no step of the two runs       *)
(* writes to the analysis cache, whichever way a run ends; the cache is    *)
(* written once, with the chosen result, when both runs have returned.     *)
(***************************************************************************)
C26_Step ==
    check_mode =>
        IF pc = "compare"
        THEN analysis_cache' =
                 [k \in DOMAIN analysis_cache \cup {cache_key} |->
                     IF k = cache_key THEN ret' ELSE analysis_cache[k]]
        ELSE analysis_cache' = analysis_cache

C26_CheckRunsLeaveCacheAlone == [][C26_Step]_vars

(***************************************************************************)
(* C29.  When analyze_repository has run with repo_info given, every       *)
(* github_url in every FileResult names the file of that FileResult: it is *)
(* the URL of the file (owner, repo, branch, own path), alone or followed  *)
(* by a line anchor; so too when a later file of the batch has the same    *)
(* content and is answered from the cache.                                 *)
(***************************************************************************)
NamesFile(url, info, path) ==
    LET file == BlobUrl(info.owner, info.repo, info.branch, path)
    IN  /\ Len(url) >= Len(file)
        /\ SubSeq(url, 1, Len(file)) = file
        /\ \/ Len(url) = Len(file)
           \/ /\ Len(url) > Len(file) + 2
              /\ SubSeq(url, Len(file) + 1, Len(file) + 2) = <<"#", "L">>

C29_UrlsNameOwnFile ==
    (batch_pc = "done" /\ repo_info.present) =>
        \A k \in 1..Len(results) :
            \A i \in 1..Len(results[k].issues) :
                LET issue == results[k].issues[i]
                IN  (issue.isdict /\ issue.github_url # <<>>) =>
                        NamesFile(issue.github_url, repo_info, results[k].file)

(***************************************************************************)
(* C30.  What an attempt raises (pipeline construction or kickoff, the     *)
(* heuristic substitution, the filter) never leaves analyze_single_file:   *)
(* the call raises only before its first attempt, and a call that got as   *)
(* far as an attempt returns a list, which analyze_repository records with *)
(* status success and no method; the fallback_heuristic method and the     *)
(* error status are recorded only for a call that raised.                  *)
(***************************************************************************)
C30_Step ==
    /\ pc' = "raised" => pc \in {"clean", "raised"}
    /\ Len(results') > Len(results) =>
          LET recorded == results'[Len(results')]
          IN  /\ pc = "returned" =>
                    /\ recorded.status = "success"
                    /\ recorded.method = ""
                    /\ recorded.error = <<>>
                    /\ DOMAIN recorded.issues = 1..Len(recorded.issues)
              /\ (recorded.status = "error" \/ recorded.method = "fallback_heuristic") =>
                    pc = "raised"

C30_AttemptErrorsStayInside ==
    [][C30_Step]_vars /\ [](pc = "returned" => DOMAIN ret = 1..Len(ret))

(* A file whose only attempt failed and whose heuristic generator raised   *)
(* too is recorded as a success with no issues.                            *)
C30_Witness ==
    /\ results # <<>>
    /\ batch_pc \in {"next", "done"}
    /\ errors # <<>>
    /\ outcome = "fallback_failed"
    /\ results[Len(results)].status = "success"
    /\ results[Len(results)].method = ""
    /\ results[Len(results)].issues = <<>>

(* A request has just been received: last_request is the request, and the  *)
(* handler has run up to its response or its first shared step.            *)
Received == requests' = requests + 1

FieldBlank(field) ==
    \/ ~field.given
    \/ field.value.none
    \/ \A i \in 1..Len(field.value.val) : field.value.val[i] \in Whitespace

FieldEmpty(field) ==
    ~field.given \/ field.value.none \/ field.value.val = <<>>

(* The requests C22 is about, bodies that are JSON objects.                *)
InvalidRequest(req) ==
    /\ req.method = "POST"
    /\ req.data.json
    /\ \/ req.route = "/analyze" /\ FieldEmpty(req.data.files)
       \/ req.route = "/feedback"
              /\ (FieldBlank(req.data.email) \/ FieldBlank(req.data.comment))
       \/ req.route = "/analyze-file" /\ FieldEmpty(req.data.content)

C22_Step ==
    Received /\ InvalidRequest(last_request')
        => /\ response'[last_request'.thread].status = 400
           /\ thread_pc'[last_request'.thread] = "idle"
           /\ UNCHANGED <<server_analysis_cache, _mongo_client, _feedback_collection,
                          clients, feedback, analyzers, pipeline_runs,
                          analysis_cache, report_files>>

(* C22: POST /analyze with an empty or missing files array, POST /feedback *)
(* whose email or comment is missing or blank after trimming, and POST     *)
(* /analyze-file without content each return HTTP 400 and leave all state  *)
(* unchanged: no Batch Analyzer is constructed, no pipeline runs, the      *)
(* server's result cache is not written, no feedback record is inserted    *)
(* and no document-store client is constructed.                            *)
C22_InvalidRequestsChangeNothing == [][C22_Step]_vars

(* A feedback whose comment is blank only after trimming was answered 400  *)
(* after an analysis and a feedback had left their state behind.           *)
C22_Witness ==
    /\ InvalidRequest(last_request)
    /\ last_request.route = "/feedback"
    /\ ~FieldEmpty(last_request.data.comment)
    /\ ~FieldBlank(last_request.data.email)
    /\ response[last_request.thread].status = 400
    /\ analyzers # <<>>

(* The issues of a response body: the results of /analyze hold lists of    *)
(* issues, the body of /analyze-file is one.                               *)
BodyIssues(req, body) ==
    IF req.route = "/analyze"
    THEN UNION { { body[k].issues[i] : i \in 1..Len(body[k].issues) } :
                     k \in 1..Len(body) }
    ELSE { body[i] : i \in 1..Len(body) }

(* The repo identifier of a request as a string; one that is missing or    *)
(* null is the default of the route.                                       *)
RepoText(req) ==
    IF req.data.repo.given
    THEN (IF req.data.repo.value.none THEN <<>> ELSE req.data.repo.value.val)
    ELSE IF req.route = "/analyze" THEN Lit.unknown ELSE <<>>

BranchText(req) ==
    IF req.data.branch.given THEN req.data.branch.value.val ELSE T.main

Slashes(s) == {i \in 1..Len(s) : s[i] = "/"}

(* owner is the text before the first '/', repo the text between the first *)
(* '/' and the second, or the end.                                         *)
FirstTwoParts(s, owner, repo) ==
    LET i == Min(Slashes(s))
        later == {j \in Slashes(s) : j > i}
    IN  /\ owner = SubSeq(s, 1, i - 1)
        /\ repo = SubSeq(s, i + 1, IF later = {} THEN Len(s) ELSE Min(later) - 1)

C23_Step ==
    Received /\ Len(analyzers') = Len(analyzers) + 1
        => LET a == analyzers'[Len(analyzers')].repo_info
               req == last_request'
           IN  /\ a.present <=> Slashes(RepoText(req)) # {}
               /\ a.present =>
                     /\ FirstTwoParts(RepoText(req), a.owner, a.repo)
                     /\ a.branch = BranchText(req)
               /\ a.present /\ (a.owner = <<>> \/ a.repo = <<>>) =>
                     \A issue \in BodyIssues(req, response'[req.thread].body) :
                         issue.github_url = <<>>

(* C23, as first stated: a RepoInfo a handler gives its analyzer has an    *)
(* owner and a repo that are not empty.                                    *)
C23_RepoInfoNeedsTwoParts ==
    \A i \in 1..Len(analyzers) :
        analyzers[i].repo_info.present
            => analyzers[i].repo_info.owner # <<>> /\ analyzers[i].repo_info.repo # <<>>

(* C23, amended: the handlers construct a RepoInfo whenever the repo       *)
(* identifier contains '/', of the first two parts of the split and the    *)
(* branch; for identifiers such as '/repo' or 'owner/' the RepoInfo has an *)
(* empty owner or repo, and every URL generated from it is empty.          *)
C23_RepoInfoOfAnySlash == [][C23_Step]_vars

(* An analyzer was given a RepoInfo without an owner, and the issue with a *)
(* line came back without a URL.                                           *)
C23_Witness ==
    /\ analyzers # <<>>
    /\ analyzers[Len(analyzers)].repo_info.present
    /\ analyzers[Len(analyzers)].repo_info.owner = <<>>
    /\ analyzers[Len(analyzers)].repo_info.repo = Sample.O_repo
    /\ last_request.route \in {"/analyze", "/analyze-file"}
    /\ response[last_request.thread].status = 200
    /\ \E issue \in BodyIssues(last_request, response[last_request.thread].body) :
          issue.line # Absent /\ issue.github_url = <<>>

(* C25: across every interleaving of POST /feedback requests the           *)
(* document-store client is constructed at most once, and every insert     *)
(* goes to the collection of that client.                                  *)
C25_OneClientForEveryInsert ==
    /\ clients <= 1
    /\ \A i \in 1..Len(feedback) : feedback[i].collection = 1

(* C24: analyses that run at the same time in one working directory read,  *)
(* under each report name, the file that the last analysis to write or     *)
(* unlink that name left there, whichever analysis that was: one analysis  *)
(* can return issues parsed from a report another wrote, and can find its  *)
(* own reports deleted by the cleanup of another.                          *)
C24_AnalysesShareReportFiles ==
    \A r \in Analyses, n \in ReportNameSet :
        IF last_op[n].op = "write"
        THEN View(r)[n].exists /\ View(r)[n].writer = <<last_op[n].by, 1>>
        ELSE ~View(r)[n].exists

(* Analysis 1, whose own pipeline answered with prose, has returned the    *)
(* issue that the pipeline of analysis 2 wrote to ranking_report.md.       *)
C24_Witness ==
    /\ req_pc[1] = "returned"
    /\ ~req_out[1].raw.has_match
    /\ last_op["ranking_report.md"] = [op |-> "write", by |-> 2]
    /\ req_raw[1] = AddRanks(<<IssueOfAnalysis(2)>>)
    /\ \E k \in 1..Len(req_ret[1]) : req_ret[1][k].fn = IssueOfAnalysis(2).fn

(* Analysis 1 wrote a localization report that holds its issue, the        *)
(* cleanup of analysis 2 deleted it, and analysis 1 parsed nothing.        *)
C24_ArtifactsDeleted ==
    /\ req_pc[1] = "returned"
    /\ req_out[1].loc.has_match
    /\ last_op["localization_report.md"] = [op |-> "unlink", by |-> 2]
    /\ req_raw[1] = <<>>

====
